---- MODULE Spec2Model ----
(***************************************************************************)
(* A model of the ogdar radar capture pipeline (jbrzusto/ogdar).           *)
(*                                                                         *)
(* Package buffer (src/unnamed/part_000, lines 116-328, the latest         *)
(* revision of buffer/buffer.go) is translated statement by statement:     *)
(* SampleBuff.NextSliceFor, ScanlineBuff.Next and Scanline.Valid.          *)
(* The rings keep the relation of the source,                              *)
(*   len(SampBuff) = len(ScanBuff) * MAX_SCANLINE_SAMPLES,                 *)
(* at a small scale.                                                       *)
(***************************************************************************)
EXTENDS Integers, Sequences, FiniteSets, TLC

(***************************************************************************)
(* Sizes of the model.  The source has len(ScanBuff) = 22000 and           *)
(* MAX_SCANLINE_SAMPLES = 4000; the model keeps the formulas and scales    *)
(* the two numbers.                                                        *)
(***************************************************************************)
ScanBuffLen == 3

MaxScanlineSamples == 2

\* len(sb.SampBuff): SAMPLE_BUFF_SIZE = SWEEP_BUFF_SIZE * MAX_SWEEP_SCANLINES *
\* MAX_SCANLINE_SAMPLES = SCANLINE_BUFF_SIZE * MAX_SCANLINE_SAMPLES.
SampBuffLen == ScanBuffLen * MaxScanlineSamples

\* Cap on the total-samples counter nSamples (uint64 in the source).
MaxTotalSamples == 10

NOT_A_SAMPLE == 0

\* A conversion that keeps every bit of its argument.
SampleNoTrunc(x) == x

\* Sample(x): conversion of an unsigned integer to the uint16 type Sample.
Sample(x) == x % 65536

\* A []Sample view into SampBuff; the nil slice has no storage.
NilSlice == [nil |-> TRUE, start |-> 0, len |-> 0]

Slice(a, n) == [nil |-> FALSE, start |-> a, len |-> n]

\* The zero value of a Scanline struct.
ZeroScanline == [ARPCount |-> 0, TrigCount |-> 0, Samples |-> NilSlice]

VARIABLES
    SampBuff,    \* SampleBuff.SampBuff: 0..SampBuffLen-1 -> Sample
    iSample,     \* SampleBuff.iSample
    nSamples,    \* SampleBuff.nSamples
    ScanBuff,    \* ScanlineBuff.ScanBuff: 0..ScanBuffLen-1 -> Scanline
    iScanline,   \* ScanlineBuff.iScanline
    nScanlines,  \* ScanlineBuff.nScanlines
    pc,          \* position of the producer (the caller of the buffer package)
    ret,         \* arguments and results of the producer's last call
    held,        \* a reader's copy of a published scanline, with its index
    trigCount,   \* the digitizer's count of trigger pulses (register trig_count)
    stamp,       \* history: the trigger count of the pulse each sample cell was written for
    Status,      \* fpga.Regs.Status
    savedTrig,   \* fpga.Regs.SavedTrigCount
    savedArp,    \* fpga.Regs.SavedARPCount
    arpCount,    \* fpga.Regs.ARPCount
    NumSamp,     \* fpga.Regs.NumSamp
    queue,       \* parameter-change requests not yet applied
    arms,        \* number of calls of Arm() so far
    dropped,     \* pulses dropped because the ring could not supply space
    timeouts,    \* polls of the digitizer that timed out
    loc,         \* the acquisition loop's snapshot of the pulse it is handling
    sweep,       \* the accumulator's open sweep
    lastClosed,  \* the sweep closed last
    mailbox,     \* one-slot mailbox of each subscriber
    drops,       \* per-subscriber count of notifications dropped
    regs,        \* the lanes of the register block not held in the variables above
    cret,        \* arguments and results of the last call of the control functions
    calls,       \* number of calls of the control functions so far
    fp,          \* the FPGA object and the mappings and descriptor the process holds
    stop,        \* the shutdown signal has been raised
    thr,         \* a throttled-pulse subscription: clock, last delivery, mailbox
    gen          \* a run of the generator: platform, registers, file, position, output

bufVars == <<SampBuff, iSample, nSamples, ScanBuff, iScanline, nScanlines>>

fpgaVars == <<Status, savedTrig, savedArp, arpCount, NumSamp>>

loopVars == <<queue, arms, dropped, timeouts, loc>>

sweepVars == <<sweep, lastClosed>>

busVars == <<mailbox, drops>>

ctlVars == <<regs, cret, calls>>

vars == <<SampBuff, iSample, nSamples, ScanBuff, iScanline, nScanlines, pc, ret, held,
          trigCount, stamp, Status, savedTrig, savedArp, arpCount, NumSamp, queue, arms,
          dropped, timeouts, loc, sweep, lastClosed, mailbox, drops, regs, cret, calls, fp,
          stop, thr, gen>>

(***************************************************************************)
(* SampleBuff.NextSliceFor(n): the slice returned and the fields after the *)
(* call.  The wrap sets iSample to 0 before the slice is taken.            *)
(***************************************************************************)
NextSliceForNoWrap(n) ==
    IF n <= 0 \/ n > SampBuffLen
    THEN [s |-> NilSlice, iSample |-> iSample, nSamples |-> nSamples]
    ELSE [s |-> Slice(iSample, n), iSample |-> iSample + n, nSamples |-> nSamples + n]

\* A wrap taken one sample early: a request that ends exactly at the end of
\* the ring is served from index 0.
NextSliceForWrapAtEnd(n) ==
    IF n <= 0 \/ n > SampBuffLen
    THEN [s |-> NilSlice, iSample |-> iSample, nSamples |-> nSamples]
    ELSE LET w == IF iSample + n >= SampBuffLen THEN 0 ELSE iSample
         IN  [s |-> Slice(w, n), iSample |-> w + n, nSamples |-> nSamples + n]

\* The wrap test made before the size test: a request larger than the ring
\* returns nil after the cursor was reset.
NextSliceForResetFirst(n) ==
    IF n <= 0
    THEN [s |-> NilSlice, iSample |-> iSample, nSamples |-> nSamples]
    ELSE LET w == IF iSample + n > SampBuffLen THEN 0 ELSE iSample
         IN  IF n <= SampBuffLen
             THEN [s |-> Slice(w, n), iSample |-> w + n, nSamples |-> nSamples + n]
             ELSE [s |-> NilSlice, iSample |-> w, nSamples |-> nSamples]

\* A cursor that stops one sample short of the end of the slice returned:
\* the next slice shares that sample.
NextSliceForShortCursor(n) ==
    IF n <= 0 \/ n > SampBuffLen
    THEN [s |-> NilSlice, iSample |-> iSample, nSamples |-> nSamples]
    ELSE LET w == IF iSample + n > SampBuffLen THEN 0 ELSE iSample
         IN  [s |-> Slice(w, n), iSample |-> w + n - 1, nSamples |-> nSamples + n]

NextSliceFor(n) ==
    IF n <= 0
    THEN [s |-> NilSlice, iSample |-> iSample, nSamples |-> nSamples]
    ELSE IF n <= SampBuffLen
         THEN LET w == IF iSample + n > SampBuffLen THEN 0 ELSE iSample
              IN  [s |-> Slice(w, n), iSample |-> w + n, nSamples |-> nSamples + n]
         ELSE [s |-> NilSlice, iSample |-> iSample, nSamples |-> nSamples]

(***************************************************************************)
(* ScanlineBuff.Next(n, trig): the result (i, err) and the fields after    *)
(* the call.  n+2 samples are requested; a nil slice is the error return.  *)
(* Otherwise the cursor wraps at the end of ScanBuff, the slot takes the   *)
(* view, and the fingerprint {NOT_A_SAMPLE, Sample(trig)} is written to    *)
(* samps[0] and samps[1].  A view of length 1 (n = -1) makes samps[1] an   *)
(* index out of range: the run-time panic happens after samps[0] and the   *)
(* slot were written.                                                      *)
(***************************************************************************)
\* Lines 281-282 without the serial number: samps[1] keeps what it held.
WriteFingerprintNoSerial(buf, s, trig) ==
    [buf EXCEPT ![s.start] = NOT_A_SAMPLE]

\* samps[0] = NOT_A_SAMPLE; samps[1] = Sample(trig).  With len(samps) = 1 the
\* second assignment panics and only the first is done.
WriteFingerprint(buf, s, trig) ==
    LET b0 == [buf EXCEPT ![s.start] = NOT_A_SAMPLE]
    IN  IF s.len < 2 THEN b0 ELSE [b0 EXCEPT ![s.start + 1] = Sample(trig)]

\* A Next that takes a scanline slot before it asks for the samples: the
\* cursor moves on even when the request fails.
NextSlotFirst(n, trig) ==
    LET r == NextSliceFor(n + 2)
        k == IF iScanline >= ScanBuffLen THEN 0 ELSE iScanline
    IN  IF r.s.nil
        THEN [err |-> TRUE, panic |-> FALSE, i |-> 0, samps |-> NilSlice,
              iSample |-> r.iSample, nSamples |-> r.nSamples,
              iScanline |-> k + 1, ScanBuff |-> ScanBuff, SampBuff |-> SampBuff]
        ELSE [err |-> FALSE, panic |-> (r.s.len < 2), i |-> k, samps |-> r.s,
              iSample |-> r.iSample, nSamples |-> r.nSamples,
              iScanline |-> k + 1,
              ScanBuff |-> [ScanBuff EXCEPT ![k].Samples = r.s],
              SampBuff |-> WriteFingerprint(SampBuff, r.s, trig)]

\* A Next whose cursor wraps one slot early: the last slot is never used.
NextEarlyWrap(n, trig) ==
    LET r == NextSliceFor(n + 2)
    IN  IF r.s.nil
        THEN [err |-> TRUE, panic |-> FALSE, i |-> 0, samps |-> NilSlice,
              iSample |-> r.iSample, nSamples |-> r.nSamples,
              iScanline |-> iScanline, ScanBuff |-> ScanBuff, SampBuff |-> SampBuff]
        ELSE LET k  == IF iScanline >= ScanBuffLen - 1 THEN 0 ELSE iScanline
             IN  [err |-> FALSE, panic |-> (r.s.len < 2), i |-> k, samps |-> r.s,
                  iSample |-> r.iSample, nSamples |-> r.nSamples,
                  iScanline |-> k + 1,
                  ScanBuff |-> [ScanBuff EXCEPT ![k].Samples = r.s],
                  SampBuff |-> WriteFingerprint(SampBuff, r.s, trig)]

Next(n, trig) ==
    LET r == NextSliceFor(n + 2)
    IN  IF r.s.nil
        THEN [err |-> TRUE, panic |-> FALSE, i |-> 0, samps |-> NilSlice,
              iSample |-> r.iSample, nSamples |-> r.nSamples,
              iScanline |-> iScanline, ScanBuff |-> ScanBuff, SampBuff |-> SampBuff]
        ELSE LET k  == IF iScanline >= ScanBuffLen THEN 0 ELSE iScanline
             IN  [err |-> FALSE, panic |-> (r.s.len < 2), i |-> k, samps |-> r.s,
                  iSample |-> r.iSample, nSamples |-> r.nSamples,
                  iScanline |-> k + 1,
                  ScanBuff |-> [ScanBuff EXCEPT ![k].Samples = r.s],
                  SampBuff |-> WriteFingerprint(SampBuff, r.s, trig)]

\* Scanline.Valid(): the receiver is a copy of the struct; the view still
\* refers to the ring's storage.  s.Samples[0] panics on a nil or empty view;
\* s.Samples[1] is read only when the first sample matches, and panics on a
\* view of one sample.  valid is the value returned when there is no panic.
Valid(s) ==
    IF s.Samples.nil \/ s.Samples.len < 1
    THEN [panic |-> TRUE, valid |-> FALSE]
    ELSE IF SampBuff[s.Samples.start] # NOT_A_SAMPLE
    THEN [panic |-> FALSE, valid |-> FALSE]
    ELSE IF s.Samples.len < 2
    THEN [panic |-> TRUE, valid |-> FALSE]
    ELSE [panic |-> FALSE,
          valid |-> SampBuff[s.Samples.start + 1] = Sample(s.TrigCount)]

\* Valid() returned false.
ReturnsFalse(r) == ~r.panic /\ ~r.valid

(***************************************************************************)
(* Inputs of the calls.                                                    *)
(***************************************************************************)
\* Sample counts: illegal ones (negative, zero, too large) and legal ones.
NVals == {-2, -1, 0, MaxScanlineSamples, SampBuffLen - 2, SampBuffLen - 1}

\* Lengths asked of NextSliceFor directly.
SliceVals == {-1, 0, 1, SampBuffLen, SampBuffLen + 1}

\* The digitizer counts every trigger pulse, captured or not, so the count
\* passed to Next grows from one call to the next: by 1, or by 65536 when
\* that many pulses went by uncaptured.  It may stand anywhere when the
\* program starts.  Counts stay below 2^31, where the conversion to the
\* uint32 field TrigCount changes nothing.
TrigStart == {0, 65535}

TrigGaps == {1, 65536}

\* Values the digitizer stores as samples: never 0.
HwVals == {1, 2}

ArpVals == {10}

(***************************************************************************)
(* The digitizer (package fpga, src/unnamed/part_005) and the parts of the *)
(* pipeline that the buffer package declares or describes but does not     *)
(* implement: the acquisition loop, the sweep accumulator, and the         *)
(* notification of clients.                                                *)
(***************************************************************************)
STATUS_ARMED == 1

STATUS_CAPTURING == 2

STATUS_FIRED == 4

\* Sizing constants of package buffer; 60 / MIN_RPM is an integer division.
MAX_PRF == 2200

MIN_RPM == 22

MAX_SWEEP_SCANLINES == MAX_PRF * (60 \div MIN_RPM)

SWEEP_BUFF_SIZE == 5

MAX_SCANLINE_SAMPLES == 4000

\* Number of samples in the sample ring and of scanlines in the scanline ring.
SAMPLE_BUFF_SIZE == SWEEP_BUFF_SIZE * MAX_SWEEP_SCANLINES * MAX_SCANLINE_SAMPLES

SCANLINE_BUFF_SIZE == SWEEP_BUFF_SIZE * MAX_SWEEP_SCANLINES

\* Cap on the number of calls of Arm().
MaxArms == 3

\* Capacity of the parameter queue.
MaxQueue == 1

\* Number of subscribers; odd ones subscribe to pulses, even ones to sweeps.
NClients == 2

Clients == 1 .. NClients

Kind(c) == IF c % 2 = 1 THEN "pulse" ELSE "sweep"

\* The ARP count when the program starts.
ArpStart == 10

\* ARP pulses seen between two trigger pulses.
ArpSteps == {0, 1}

NoHandle == [index |-> 0, low16 |-> 0]

\* A Sweep that holds nothing; ts0 and tw1 stand for the times of the first
\* and the last scanline, kept as those scanlines' trigger counts.
NoSweep == [open |-> FALSE, ARP |-> 0, n |-> 0, s1 |-> NoHandle, s2 |-> NoHandle,
            ts0 |-> 0, tw1 |-> 0]

NoLoc == [trig |-> 0, arp |-> 0, closed |-> FALSE]

\* An empty mailbox, and the two kinds of notification: a scanline handle
\* (with the pulse's full trigger count) and a closed sweep (ARP and count).
NoItem == [kind |-> "none", index |-> 0, key |-> 0, trig |-> 0]

PulseItem(j, trig) == [kind |-> "pulse", index |-> j, key |-> trig % 65536, trig |-> trig]

SweepItem(sw) == [kind |-> "sweep", index |-> 0, key |-> sw.ARP, trig |-> sw.n]

\* The cells [s.start+a, s.start+b) of view s are written for pulse trig.
Stamped(st, s, a, b, trig) ==
    IF s.nil THEN st
    ELSE [x \in 0 .. SampBuffLen - 1 |->
            IF x >= s.start + a /\ x < s.start + b /\ x < s.start + s.len
            THEN trig ELSE st[x]]

(***************************************************************************)
(* The register block (type regs of package fpga): its fields in storage   *)
(* order, with size in bytes and access mode (rw, r, or p for pulse).      *)
(***************************************************************************)
Fields == <<
    [name |-> "Command", size |-> 4, mode |-> "p"],
    [name |-> "TrigSource", size |-> 4, mode |-> "rw"],
    [name |-> "NumSamp", size |-> 4, mode |-> "rw"],
    [name |-> "DecRate", size |-> 4, mode |-> "rw"],
    [name |-> "Options", size |-> 4, mode |-> "rw"],
    [name |-> "TrigThreshExcite", size |-> 4, mode |-> "rw"],
    [name |-> "TrigThreshRelax", size |-> 4, mode |-> "rw"],
    [name |-> "TrigDelay", size |-> 4, mode |-> "rw"],
    [name |-> "TrigLatency", size |-> 4, mode |-> "rw"],
    [name |-> "TrigCount", size |-> 4, mode |-> "r"],
    [name |-> "ACPThreshExcite", size |-> 4, mode |-> "rw"],
    [name |-> "ACPThreshRelax", size |-> 4, mode |-> "rw"],
    [name |-> "ACPLatency", size |-> 4, mode |-> "rw"],
    [name |-> "ARPThreshExcite", size |-> 4, mode |-> "rw"],
    [name |-> "ARPThreshRelax", size |-> 4, mode |-> "rw"],
    [name |-> "ARPLatency", size |-> 4, mode |-> "rw"],
    [name |-> "TrigClock", size |-> 8, mode |-> "r"],
    [name |-> "TrigPrevClock", size |-> 8, mode |-> "r"],
    [name |-> "ACPClock", size |-> 8, mode |-> "r"],
    [name |-> "ACPPrevClock", size |-> 8, mode |-> "r"],
    [name |-> "ARPClock", size |-> 8, mode |-> "r"],
    [name |-> "ARPPrevClock", size |-> 8, mode |-> "r"],
    [name |-> "ACPCount", size |-> 4, mode |-> "r"],
    [name |-> "ARPCount", size |-> 4, mode |-> "r"],
    [name |-> "ACPPerARP", size |-> 4, mode |-> "r"],
    [name |-> "ACPAtARP", size |-> 4, mode |-> "r"],
    [name |-> "ClockSinceACPAtARP", size |-> 4, mode |-> "r"],
    [name |-> "TrigAtARP", size |-> 4, mode |-> "r"],
    [name |-> "Clocks", size |-> 8, mode |-> "r"],
    [name |-> "SavedTrigClock", size |-> 8, mode |-> "r"],
    [name |-> "SavedTrigPrevClock", size |-> 8, mode |-> "r"],
    [name |-> "SavedACPClock", size |-> 8, mode |-> "r"],
    [name |-> "SavedACPPrevClock", size |-> 8, mode |-> "r"],
    [name |-> "SavedARPClock", size |-> 8, mode |-> "r"],
    [name |-> "SavedARPPrevClock", size |-> 8, mode |-> "r"],
    [name |-> "SavedTrigCount", size |-> 4, mode |-> "r"],
    [name |-> "SavedACPCount", size |-> 4, mode |-> "r"],
    [name |-> "SavedARPCount", size |-> 4, mode |-> "r"],
    [name |-> "SavedACPPerARP", size |-> 4, mode |-> "r"],
    [name |-> "SavedACPAtARP", size |-> 4, mode |-> "r"],
    [name |-> "SavedClockSinceACPAtARP", size |-> 4, mode |-> "r"],
    [name |-> "SavedTrigAtARP", size |-> 4, mode |-> "r"],
    [name |-> "ADCCounter", size |-> 4, mode |-> "r"],
    [name |-> "ACPRaw", size |-> 4, mode |-> "r"],
    [name |-> "ARPRaw", size |-> 4, mode |-> "r"],
    [name |-> "Status", size |-> 4, mode |-> "r"]
>>

\* Fields are laid out in order by the Go compiler, each at the next multiple
\* of its alignment; 64-bit fields are aligned to a bytes (4 on 32-bit ARM,
\* 8 on amd64).
AlignUp(o, al) == ((o + al - 1) \div al) * al

FieldAlign(k, a) == IF Fields[k].size < a THEN Fields[k].size ELSE a

\* The offset of the end of fields lo .. hi laid out from offset o (the run
\* is laid out half by half).
RECURSIVE LayoutEnd(_, _, _, _)

LayoutEnd(lo, hi, o, a) ==
    IF lo > hi THEN o
    ELSE IF lo = hi THEN AlignUp(o, FieldAlign(lo, a)) + Fields[lo].size
    ELSE LET mid == (lo + hi) \div 2
             e == LayoutEnd(lo, mid, o, a)
         IN  IF e >= o THEN LayoutEnd(mid + 1, hi, e, a) ELSE e

\* f.Offset of field k (reflect.StructField.Offset).
FieldOffset(k, a) == AlignUp(LayoutEnd(1, k - 1, 0, a), FieldAlign(k, a))

\* The platform the program runs on aligns 64-bit fields to 4 bytes.
TargetAlign == 4

\* Number of entries Init() has appended to RegKeys before it reaches field k:
\* one per 32-bit field, two per 64-bit field.
LaneBase(k) == (k - 1) + Cardinality({j \in 1 .. k - 1 : Fields[j].size = 8})

\* Init(): RegKeys and RegIndex, one entry per 32-bit lane; a 64-bit field
\* gives the lanes <name>_lo at f.Offset and <name>_hi at f.Offset+4.
LanesFrom(a) ==
    [i \in 1 .. LaneBase(Len(Fields) + 1) |->
        LET k == CHOOSE k \in 1 .. Len(Fields) : LaneBase(k) < i /\ i <= LaneBase(k + 1)
            f == Fields[k]
            o == FieldOffset(k, a)
        IN  IF f.size = 4 THEN [name |-> f.name, offset |-> o, mode |-> f.mode]
            ELSE IF i = LaneBase(k) + 1
                 THEN [name |-> f.name \o "_lo", offset |-> o, mode |-> f.mode]
                 ELSE [name |-> f.name \o "_hi", offset |-> o + 4, mode |-> f.mode]]

\* Alignments of 64-bit fields on the platforms the generator and the
\* program are built for.
Aligns == {4, 8}

Lanes == LanesFrom(TargetAlign)

\* len(RegMap)
NumRegs == Len(Lanes)

RegKeys == [i \in 0 .. NumRegs - 1 |-> Lanes[i + 1].name]

RegIndex == [i \in 0 .. NumRegs - 1 |-> Lanes[i + 1].offset]

LaneNames == {Lanes[i].name : i \in 1 .. NumRegs}

\* A lookup that yields the zero value for a name that is not a key.
RegMapZero(x) == IF x \in LaneNames THEN CHOOSE i \in 0 .. NumRegs - 1 : RegKeys[i] = x ELSE 0

\* RegMap[x]: the index of name x, or -1 when x is not a key.
RegMap(x) == IF x \in LaneNames THEN CHOOSE i \in 0 .. NumRegs - 1 : RegKeys[i] = x ELSE -1

\* Lanes kept in variables of their own.
OwnLanes == {"NumSamp", "Status", "TrigCount", "ARPCount", "SavedTrigCount", "SavedARPCount"}

(***************************************************************************)
(* The generator of the verilog snippets (package main of gen_verilog).    *)
(* It reads the registers by reflection from type Regs of src/fpga/fpga.go:*)
(* a struct of the structs Control, Metadata, Misc and a second Metadata   *)
(* (AtTrig) with the prefix saved_.  A field is given with its Go name,    *)
(* its kind, and the reg, mode and is_wire entries of its tag.             *)
(***************************************************************************)
Control == <<
    [name |-> "Command", kind |-> "Uint32", reg |-> "command", mode |-> "p", is_wire |-> ""],
    [name |-> "TrigSource", kind |-> "Uint32", reg |-> "trig_source", mode |-> "rw", is_wire |-> ""],
    [name |-> "NumSamp", kind |-> "Uint32", reg |-> "num_samp", mode |-> "rw", is_wire |-> ""],
    [name |-> "DecRate", kind |-> "Uint32", reg |-> "dec_rate", mode |-> "rw", is_wire |-> ""],
    [name |-> "Options", kind |-> "Uint32", reg |-> "options", mode |-> "rw", is_wire |-> ""],
    [name |-> "TrigThreshExcite", kind |-> "Uint32", reg |-> "trig_thresh_excite", mode |-> "rw", is_wire |-> ""],
    [name |-> "TrigThreshRelax", kind |-> "Uint32", reg |-> "trig_thresh_relax", mode |-> "rw", is_wire |-> ""],
    [name |-> "TrigDelay", kind |-> "Uint32", reg |-> "trig_delay", mode |-> "rw", is_wire |-> ""],
    [name |-> "TrigLatency", kind |-> "Uint32", reg |-> "trig_latency", mode |-> "rw", is_wire |-> ""],
    [name |-> "ACPThreshExcite", kind |-> "Uint32", reg |-> "acp_thresh_excite", mode |-> "rw", is_wire |-> ""],
    [name |-> "ACPThreshRelax", kind |-> "Uint32", reg |-> "acp_thresh_relax", mode |-> "rw", is_wire |-> ""],
    [name |-> "ACPLatency", kind |-> "Uint32", reg |-> "acp_latency", mode |-> "rw", is_wire |-> ""],
    [name |-> "ARPThreshExcite", kind |-> "Uint32", reg |-> "arp_thresh_excite", mode |-> "rw", is_wire |-> ""],
    [name |-> "ARPThreshRelax", kind |-> "Uint32", reg |-> "arp_thresh_relax", mode |-> "rw", is_wire |-> ""],
    [name |-> "ARPLatency", kind |-> "Uint32", reg |-> "arp_thresh_latency", mode |-> "rw", is_wire |-> ""]
>>

Metadata == <<
    [name |-> "TrigClock", kind |-> "Uint64", reg |-> "trig_clock", mode |-> "r", is_wire |-> ""],
    [name |-> "TrigPrevClock", kind |-> "Uint64", reg |-> "trig_prev_clock", mode |-> "r", is_wire |-> ""],
    [name |-> "ACPClock", kind |-> "Uint64", reg |-> "acp_clock", mode |-> "r", is_wire |-> ""],
    [name |-> "ACPPrevClock", kind |-> "Uint64", reg |-> "acp_prev_clock", mode |-> "r", is_wire |-> ""],
    [name |-> "ARPClock", kind |-> "Uint64", reg |-> "arp_clock", mode |-> "r", is_wire |-> ""],
    [name |-> "ARPPrevClock", kind |-> "Uint64", reg |-> "arp_prev_clock", mode |-> "r", is_wire |-> ""],
    [name |-> "TrigCount", kind |-> "Uint32", reg |-> "trig_count", mode |-> "r", is_wire |-> "y"],
    [name |-> "ACPCount", kind |-> "Uint32", reg |-> "acp_count", mode |-> "r", is_wire |-> "y"],
    [name |-> "ARPCount", kind |-> "Uint32", reg |-> "arp_count", mode |-> "r", is_wire |-> "y"],
    [name |-> "ACPPerARP", kind |-> "Uint32", reg |-> "acp_per_arp", mode |-> "r", is_wire |-> ""],
    [name |-> "ADCCounter", kind |-> "Uint32", reg |-> "adc_counter", mode |-> "r", is_wire |-> ""],
    [name |-> "ACPAtARP", kind |-> "Uint32", reg |-> "acp_at_arp", mode |-> "r", is_wire |-> ""],
    [name |-> "ClockSinceACPAtARP", kind |-> "Uint32", reg |-> "clock_since_acp_at_arp", mode |-> "r", is_wire |-> ""],
    [name |-> "TrigAtARP", kind |-> "Uint32", reg |-> "trig_at_arp", mode |-> "r", is_wire |-> ""]
>>

Misc == <<
    [name |-> "Clocks", kind |-> "Uint64", reg |-> "clocks", mode |-> "r", is_wire |-> ""],
    [name |-> "ACPRaw", kind |-> "Uint32", reg |-> "acp_raw", mode |-> "r", is_wire |-> ""],
    [name |-> "ARPRaw", kind |-> "Uint32", reg |-> "arp_raw", mode |-> "r", is_wire |-> ""]
>>

\* type Regs: the fields of kind struct, with the reg_prefix entry of the tag.
Regs == <<
    [name |-> "Control", type |-> Control, reg_prefix |-> ""],
    [name |-> "Metadata", type |-> Metadata, reg_prefix |-> ""],
    [name |-> "Misc", type |-> Misc, reg_prefix |-> ""],
    [name |-> "AtTrig", type |-> Metadata, reg_prefix |-> "saved_"]
>>

\* f.Type.Size() of a register field, in bytes.
KindSize(kind) == IF kind \in {"Uint64", "Int64"} THEN 8 ELSE 4

\* The alignment of a register field on a platform that aligns 64-bit words
\* to a bytes.
KindAlign(kind, a) == IF KindSize(kind) < a THEN KindSize(kind) ELSE a

\* The end of field k of struct t (a sequence of register fields): the Go
\* compiler places each field at the next multiple of its alignment.
RECURSIVE StructEnd(_, _, _)

StructEnd(t, k, a) ==
    IF k = 0 THEN 0
    ELSE AlignUp(StructEnd(t, k - 1, a), KindAlign(t[k].kind, a)) + KindSize(t[k].kind)

\* f.Offset of field k of struct t.
StructOffset(t, k, a) == AlignUp(StructEnd(t, k - 1, a), KindAlign(t[k].kind, a))

\* A struct is aligned as its most aligned field, and its size is a multiple
\* of its alignment.
StructAlign(t, a) ==
    CHOOSE m \in {KindAlign(t[k].kind, a) : k \in DOMAIN t} :
        \A k \in DOMAIN t : KindAlign(t[k].kind, a) <= m

StructSize(t, a) == AlignUp(StructEnd(t, Len(t), a), StructAlign(t, a))

\* f.Offset of field m of Regs.
RECURSIVE RegsEnd(_, _)

RegsEnd(m, a) ==
    IF m = 0 THEN 0
    ELSE AlignUp(RegsEnd(m - 1, a), StructAlign(Regs[m].type, a)) + StructSize(Regs[m].type, a)

RegsOffset(m, a) == AlignUp(RegsEnd(m - 1, a), StructAlign(Regs[m].type, a))

\* ext(f.Type, f.Tag.Get("reg_prefix"), offset + f.Offset) for field m of
\* Regs: one reg for each field of the nested struct, in order.
ext(m, a) ==
    LET t == Regs[m].type
        prefix == Regs[m].reg_prefix
    IN  [k \in 1 .. Len(t) |->
            [kind |-> t[k].kind,
             name |-> prefix \o t[k].name,
             offset |-> RegsOffset(m, a) + StructOffset(t, k, a),
             size |-> 8 * KindSize(t[k].kind),
             regname |-> prefix \o t[k].reg,
             mode |-> t[k].mode,
             iswire |-> t[k].is_wire = "y" /\ prefix = ""]]

\* ExtractRegs(&regs, new(fpga.Regs)) on a platform that aligns 64-bit words
\* to a bytes.
ExtractRegs(a) == ext(1, a) \o ext(2, a) \o ext(3, a) \o ext(4, a)

\* fmt's %06x: the six hexadecimal digits of an offset below 16^6.
Hex(o) == [d \in 1 .. 6 |-> (o \div (16 ^ (6 - d))) % 16]

\* The address a verilog literal 20'h<digits> stands for: the low 20 bits.
Literal(h) ==
    (h[1] * 1048576 + h[2] * 65536 + h[3] * 4096 + h[4] * 256 + h[5] * 16 + h[6]) % 1048576

Wide(r) == r.kind \in {"Uint64", "Int64"}

\* reg.MMap(): the lines `define OFFSET_<name> 20'h<offset>.
MMap(r) ==
    IF Wide(r)
    THEN << [name |-> r.name \o "_LO", hex |-> Hex(r.offset)],
            [name |-> r.name \o "_HI", hex |-> Hex(r.offset + 4)] >>
    ELSE << [name |-> r.name, hex |-> Hex(r.offset)] >>

\* reg.Def(): the declaration of the register, as wire or as reg.
Def(r) ==
    << [decl |-> IF r.iswire THEN "wire" ELSE "reg", size |-> r.size, regname |-> r.regname] >>

\* The clauses of a dispatch artifact for register r: one for a 32-bit
\* register, one for each half of a 64-bit register, with the bits of the
\* register (high : low) the clause reads or writes.
Clauses(r) ==
    IF Wide(r)
    THEN << [name |-> r.name \o "_LO", regname |-> r.regname, bits |-> <<31, 0>>],
            [name |-> r.name \o "_HI", regname |-> r.regname, bits |-> <<63, 32>>] >>
    ELSE << [name |-> r.name, regname |-> r.regname, bits |-> <<31, 0>>] >>

\* reg.Getter(): nothing for a register of mode p.
Getter(r) == IF r.mode = "p" THEN << >> ELSE Clauses(r)

\* A setter that skips the registers of mode r only.
SetterSkipsReadOnly(r) == IF r.mode = "r" THEN << >> ELSE Clauses(r)

\* reg.Setter(): nothing for a register of mode r or p.
Setter(r) == IF r.mode = "r" \/ r.mode = "p" THEN << >> ELSE Clauses(r)

\* reg.Pulser(): nothing for a register whose mode is not p.
Pulser(r) == IF r.mode # "p" THEN << >> ELSE Clauses(r)

\* The files main() writes, in order.
GenFiles == <<"generated_mmap.v", "generated_regdefs.v", "generated_getters.v",
              "generated_setters.v", "generated_pulsers.v">>

\* The generator before it runs.
NoGen == [align |-> 0, regs |-> << >>, file |-> 0, i |-> 0,
          out |-> [f \in DOMAIN GenFiles |-> << >>]]

(***************************************************************************)
(* The memory map committed with the sources (generated_regdefs.v, the     *)
(* lines `define OFFSET_<name> 20'h<offset>): names and offsets in order.  *)
(***************************************************************************)
GeneratedMMap == <<
    [name |-> "Command", hex |-> <<0, 0, 0, 0, 0, 0>>],
    [name |-> "TrigSource", hex |-> <<0, 0, 0, 0, 0, 4>>],
    [name |-> "NumSamp", hex |-> <<0, 0, 0, 0, 0, 8>>],
    [name |-> "DecRate", hex |-> <<0, 0, 0, 0, 0, 12>>],
    [name |-> "Options", hex |-> <<0, 0, 0, 0, 1, 0>>],
    [name |-> "TrigThreshExcite", hex |-> <<0, 0, 0, 0, 1, 4>>],
    [name |-> "TrigThreshRelax", hex |-> <<0, 0, 0, 0, 1, 8>>],
    [name |-> "TrigDelay", hex |-> <<0, 0, 0, 0, 1, 12>>],
    [name |-> "TrigLatency", hex |-> <<0, 0, 0, 0, 2, 0>>],
    [name |-> "TrigCount", hex |-> <<0, 0, 0, 0, 2, 4>>],
    [name |-> "ACPThreshExcite", hex |-> <<0, 0, 0, 0, 2, 8>>],
    [name |-> "ACPThreshRelax", hex |-> <<0, 0, 0, 0, 2, 12>>],
    [name |-> "ACPLatency", hex |-> <<0, 0, 0, 0, 3, 0>>],
    [name |-> "ARPThreshExcite", hex |-> <<0, 0, 0, 0, 3, 4>>],
    [name |-> "ARPThreshRelax", hex |-> <<0, 0, 0, 0, 3, 8>>],
    [name |-> "ARPLatency", hex |-> <<0, 0, 0, 0, 3, 12>>],
    [name |-> "TrigClock_LO", hex |-> <<0, 0, 0, 0, 4, 0>>],
    [name |-> "TrigClock_HI", hex |-> <<0, 0, 0, 0, 4, 4>>],
    [name |-> "TrigPrevClock_LO", hex |-> <<0, 0, 0, 0, 4, 8>>],
    [name |-> "TrigPrevClock_HI", hex |-> <<0, 0, 0, 0, 4, 12>>],
    [name |-> "ACPClock_LO", hex |-> <<0, 0, 0, 0, 5, 0>>],
    [name |-> "ACPClock_HI", hex |-> <<0, 0, 0, 0, 5, 4>>],
    [name |-> "ACPPrevClock_LO", hex |-> <<0, 0, 0, 0, 5, 8>>],
    [name |-> "ACPPrevClock_HI", hex |-> <<0, 0, 0, 0, 5, 12>>],
    [name |-> "ARPClock_LO", hex |-> <<0, 0, 0, 0, 6, 0>>],
    [name |-> "ARPClock_HI", hex |-> <<0, 0, 0, 0, 6, 4>>],
    [name |-> "ARPPrevClock_LO", hex |-> <<0, 0, 0, 0, 6, 8>>],
    [name |-> "ARPPrevClock_HI", hex |-> <<0, 0, 0, 0, 6, 12>>],
    [name |-> "ACPCount", hex |-> <<0, 0, 0, 0, 7, 0>>],
    [name |-> "ARPCount", hex |-> <<0, 0, 0, 0, 7, 4>>],
    [name |-> "ACPPerARP", hex |-> <<0, 0, 0, 0, 7, 8>>],
    [name |-> "ADCCounter", hex |-> <<0, 0, 0, 0, 7, 12>>],
    [name |-> "ACPAtARP", hex |-> <<0, 0, 0, 0, 8, 0>>],
    [name |-> "ClockSinceACPAtARP", hex |-> <<0, 0, 0, 0, 8, 4>>],
    [name |-> "TrigAtARP", hex |-> <<0, 0, 0, 0, 8, 8>>],
    [name |-> "Clocks_LO", hex |-> <<0, 0, 0, 0, 8, 12>>],
    [name |-> "Clocks_HI", hex |-> <<0, 0, 0, 0, 9, 0>>],
    [name |-> "ACPRaw", hex |-> <<0, 0, 0, 0, 9, 4>>],
    [name |-> "ARPRaw", hex |-> <<0, 0, 0, 0, 9, 8>>],
    [name |-> "SavedTrigClock_LO", hex |-> <<0, 0, 0, 0, 9, 12>>],
    [name |-> "SavedTrigClock_HI", hex |-> <<0, 0, 0, 0, 10, 0>>],
    [name |-> "SavedTrigPrevClock_LO", hex |-> <<0, 0, 0, 0, 10, 4>>],
    [name |-> "SavedTrigPrevClock_HI", hex |-> <<0, 0, 0, 0, 10, 8>>],
    [name |-> "SavedACPClock_LO", hex |-> <<0, 0, 0, 0, 10, 12>>],
    [name |-> "SavedACPClock_HI", hex |-> <<0, 0, 0, 0, 11, 0>>],
    [name |-> "SavedACPPrevClock_LO", hex |-> <<0, 0, 0, 0, 11, 4>>],
    [name |-> "SavedACPPrevClock_HI", hex |-> <<0, 0, 0, 0, 11, 8>>],
    [name |-> "SavedARPClock_LO", hex |-> <<0, 0, 0, 0, 11, 12>>],
    [name |-> "SavedARPClock_HI", hex |-> <<0, 0, 0, 0, 12, 0>>],
    [name |-> "SavedARPPrevClock_LO", hex |-> <<0, 0, 0, 0, 12, 4>>],
    [name |-> "SavedARPPrevClock_HI", hex |-> <<0, 0, 0, 0, 12, 8>>],
    [name |-> "SavedTrigCount", hex |-> <<0, 0, 0, 0, 12, 12>>],
    [name |-> "SavedACPCount", hex |-> <<0, 0, 0, 0, 13, 0>>],
    [name |-> "SavedARPCount", hex |-> <<0, 0, 0, 0, 13, 4>>],
    [name |-> "SavedACPPerARP", hex |-> <<0, 0, 0, 0, 13, 8>>],
    [name |-> "SavedADCCounter", hex |-> <<0, 0, 0, 0, 13, 12>>],
    [name |-> "SavedACPAtARP", hex |-> <<0, 0, 0, 0, 14, 0>>],
    [name |-> "SavedClockSinceACPAtARP", hex |-> <<0, 0, 0, 0, 14, 4>>],
    [name |-> "SavedTrigAtARP", hex |-> <<0, 0, 0, 0, 14, 8>>]
>>

(***************************************************************************)
(* The FPGA object with what the process holds of the kernel: the open     *)
(* descriptor of /dev/mem and the live mappings.                           *)
(*   rev     which constructor made the object                             *)
(*   life    none, up, failed (constructor returned nil), panicked, down,  *)
(*           crashed (a call went through a nil pointer)                   *)
(*   memfile the memfile field is not nil (the descriptor is open)         *)
(*   live    regions currently mapped                                      *)
(*   slices  regions whose mapping is held in a slice field of the object  *)
(*   views   typed views that are not nil                                  *)
(*   maps    regions in the order they were mapped                         *)
(*   unmaps  regions in the order they were unmapped                       *)
(*   hdr     words of the object that a store through Regs has replaced,   *)
(*           by the name of the register stored to                         *)
(***************************************************************************)
NoFpga == [rev |-> "none", life |-> "none", memfile |-> FALSE, live |-> {}, slices |-> {},
           views |-> {}, maps |-> << >>, unmaps |-> << >>, hdr |-> [x \in {} |-> 0]]

NoCall == [op |-> "none", name |-> "", i |-> 0, v |-> 0, ok |-> FALSE, val |-> 0, cfg |-> << >>]

NoRet == [op |-> "none", n |-> 0, trig |-> 0, err |-> FALSE, i |-> 0, s |-> NilSlice]

\* A throttled-pulse subscription before the first scanline: t is the capture
\* time of the newest scanline, last that of the scanline delivered last
\* (-1: none yet), box the subscriber's mailbox, lost its drop counter.
NoThrottle == [t |-> 0, last |-> -1, box |-> NoItem, lost |-> 0]

NotHeld == [taken |-> FALSE, index |-> 0, sl |-> ZeroScanline]

\* The program before any call: rings, digitizer, loop, bus and registers.
Start ==
    /\ SampBuff = [x \in 0 .. SampBuffLen - 1 |-> 0]
    /\ iSample = 0
    /\ nSamples = 0
    /\ ScanBuff = [k \in 0 .. ScanBuffLen - 1 |-> ZeroScanline]
    /\ iScanline = 0
    /\ nScanlines = 0
    /\ pc = "idle"
    /\ ret = NoRet
    /\ held = NotHeld
    /\ trigCount \in TrigStart
    /\ stamp = [x \in 0 .. SampBuffLen - 1 |-> -1]
    /\ Status = 0
    /\ savedTrig = trigCount
    /\ savedArp = ArpStart
    /\ arpCount = ArpStart
    /\ NumSamp = MaxScanlineSamples
    /\ queue = << >>
    /\ arms = 0
    /\ dropped = 0
    /\ timeouts = 0
    /\ loc = NoLoc
    /\ sweep = NoSweep
    /\ lastClosed = NoSweep
    /\ mailbox = [c \in Clients |-> NoItem]
    /\ drops = [c \in Clients |-> 0]
    /\ regs = [x \in LaneNames \ OwnLanes |-> IF x = "DecRate" THEN 1 ELSE 0]
    /\ cret = NoCall
    /\ calls = 0
    /\ stop = FALSE
    /\ thr = NoThrottle

\* No FPGA object has been made and the generator is not running.
Init ==
    /\ Start
    /\ fp = NoFpga
    /\ gen = NoGen

\* A direct call of SampleBuff.NextSliceFor(n).
CallNextSliceFor ==
    /\ pc = "idle"
    /\ nSamples < MaxTotalSamples
    /\ \E n \in SliceVals :
         LET r == NextSliceFor(n)
         IN  /\ iSample' = r.iSample
             /\ nSamples' = r.nSamples
             /\ ret' = [op |-> "NextSliceFor", n |-> n, trig |-> 0, err |-> r.s.nil,
                        i |-> 0, s |-> r.s]
    /\ UNCHANGED <<SampBuff, ScanBuff, iScanline, nScanlines, pc, held, trigCount, stamp>>
    /\ UNCHANGED <<fpgaVars, loopVars, sweepVars, busVars>>
    /\ UNCHANGED ctlVars
    /\ UNCHANGED <<fp, stop, thr, gen>>

\* A call of ScanlineBuff.Next(n, trig) by the producer.
CallNext ==
    /\ pc = "idle"
    /\ nSamples < MaxTotalSamples
    /\ \E n \in NVals, gap \in TrigGaps :
         LET trig == trigCount + gap
             r == Next(n, trig)
         IN  /\ trigCount' = IF r.err THEN trigCount ELSE trig
             /\ SampBuff' = r.SampBuff
             /\ stamp' = Stamped(stamp, r.samps, 0, 2, trig)
             /\ iSample' = r.iSample
             /\ nSamples' = r.nSamples
             /\ ScanBuff' = r.ScanBuff
             /\ iScanline' = r.iScanline
             /\ ret' = [op |-> "Next", n |-> n, trig |-> trig, err |-> r.err,
                        i |-> r.i, s |-> r.samps]
             /\ pc' = IF r.err THEN "idle" ELSE IF r.panic THEN "panic" ELSE "alloc"
    /\ UNCHANGED <<nScanlines, held>>
    /\ UNCHANGED <<fpgaVars, loopVars, sweepVars, busVars>>
    /\ UNCHANGED ctlVars
    /\ UNCHANGED <<fp, stop, thr, gen>>

\* A producer that goes on without copying the samples.
FillSkipped ==
    /\ pc = "alloc"
    /\ pc' = "filled"
    /\ UNCHANGED <<bufVars, ret, held, trigCount, stamp, fpgaVars, loopVars, sweepVars,
                   busVars>>
    /\ UNCHANGED ctlVars
    /\ UNCHANGED <<fp, stop, thr, gen>>

\* The producer copies the pulse's samples behind the fingerprint.
Fill ==
    /\ pc = "alloc"
    /\ \E v \in HwVals :
         SampBuff' = [x \in 0 .. SampBuffLen - 1 |->
                        IF x >= ret.s.start + 2 /\ x < ret.s.start + ret.s.len
                        THEN v ELSE SampBuff[x]]
    /\ stamp' = Stamped(stamp, ret.s, 2, ret.s.len, ret.trig)
    /\ pc' = "filled"
    /\ UNCHANGED <<iSample, nSamples, ScanBuff, iScanline, nScanlines, ret, held, trigCount>>
    /\ UNCHANGED <<fpgaVars, loopVars, sweepVars, busVars>>
    /\ UNCHANGED ctlVars
    /\ UNCHANGED <<fp, stop, thr, gen>>

\* The producer writes the scanline's metadata into the slot.
WriteMeta ==
    /\ pc = "filled"
    /\ \E arp \in ArpVals :
         ScanBuff' = [ScanBuff EXCEPT ![ret.i].TrigCount = ret.trig,
                                      ![ret.i].ARPCount = arp]
    /\ pc' = "idle"
    /\ UNCHANGED <<SampBuff, iSample, nSamples, iScanline, nScanlines, ret, held, trigCount,
                   stamp>>
    /\ UNCHANGED <<fpgaVars, loopVars, sweepVars, busVars>>
    /\ UNCHANGED ctlVars
    /\ UNCHANGED <<fp, stop, thr, gen>>

\* Slot j holds a scanline whose samples and metadata are complete.
Published(j) ==
    /\ ~ScanBuff[j].Samples.nil
    /\ ~(pc \in {"alloc", "filled"} /\ ret.i = j)

\* A reader copies a published scanline out of the ring.
ReaderTake ==
    /\ pc # "panic"
    /\ \E j \in 0 .. ScanBuffLen - 1 :
         /\ Published(j)
         /\ held' = [taken |-> TRUE, index |-> j, sl |-> ScanBuff[j]]
    /\ UNCHANGED <<SampBuff, iSample, nSamples, ScanBuff, iScanline, nScanlines, pc, ret,
                   trigCount, stamp>>
    /\ UNCHANGED <<fpgaVars, loopVars, sweepVars, busVars>>
    /\ UNCHANGED ctlVars
    /\ UNCHANGED <<fp, stop, thr, gen>>

SpecNext ==
    \/ CallNextSliceFor
    \/ CallNext
    \/ Fill
    \/ WriteMeta
    \/ ReaderTake

Spec == Init /\ [][SpecNext]_vars

(***************************************************************************)
(* Scanline handles.  The source declares the type and its layout (bits    *)
(* 31:16 index, bits 15:0 the low 16 bits of TrigCount); the validity      *)
(* check of a handle is the one the design describes.                      *)
(***************************************************************************)
ScanlineHandle(j, trig) == [index |-> j, low16 |-> trig % 65536]

IsValid(h) ==
    LET slot == ScanBuff[h.index]
    IN  /\ slot.TrigCount % 65536 = h.low16
        /\ ~slot.Samples.nil
        /\ SampBuff[slot.Samples.start] = NOT_A_SAMPLE
        /\ SampBuff[slot.Samples.start + 1] = h.low16

\* The handle of the scanline the reader took.
HeldHandle == ScanlineHandle(held.index, held.sl.TrigCount)

(***************************************************************************)
(* The producer with legal sample counts only: every pulse is captured     *)
(* with an even count n, 2 <= n <= MAX_SCANLINE_SAMPLES, as the num_samp   *)
(* register requires and the sizing of the rings assumes.                  *)
(***************************************************************************)
LegalNumSamp == {n \in 2 .. MaxScanlineSamples : n % 2 = 0}

CallNextLegal ==
    /\ pc = "idle"
    /\ nSamples < MaxTotalSamples
    /\ \E n \in LegalNumSamp, gap \in TrigGaps :
         LET trig == trigCount + gap
             r == Next(n, trig)
         IN  /\ trigCount' = trig
             /\ SampBuff' = r.SampBuff
             /\ stamp' = Stamped(stamp, r.samps, 0, 2, trig)
             /\ iSample' = r.iSample
             /\ nSamples' = r.nSamples
             /\ ScanBuff' = r.ScanBuff
             /\ iScanline' = r.iScanline
             /\ ret' = [op |-> "Next", n |-> n, trig |-> trig, err |-> r.err,
                        i |-> r.i, s |-> r.samps]
             /\ pc' = IF r.err THEN "idle" ELSE "alloc"
    /\ UNCHANGED <<nScanlines, held>>
    /\ UNCHANGED <<fpgaVars, loopVars, sweepVars, busVars>>
    /\ UNCHANGED ctlVars
    /\ UNCHANGED <<fp, stop, thr, gen>>

LegalNext ==
    \/ CallNextLegal
    \/ Fill
    \/ WriteMeta
    \/ ReaderTake

SpecLegal == Init /\ [][LegalNext]_vars

\* The handle issued for the scanline now in slot j.
SlotHandle(j) == ScanlineHandle(j, ScanBuff[j].TrigCount)

(***************************************************************************)
(* C3: a handle stays valid until the scanline ring has gone round once.   *)
(* A published scanline still in its slot j has seen fewer than            *)
(* len(ScanBuff) further allocations (the len(ScanBuff)-th one takes slot  *)
(* j), so with legal sample counts the handle of every published slot is   *)
(* valid.                                                                  *)
(***************************************************************************)
C3_ValidForOneRevolution ==
    \A j \in 0 .. ScanBuffLen - 1 :
        Published(j) => IsValid(SlotHandle(j))


(***************************************************************************)
(* The digitizer.  Arm() sets the arm bit of the command register; the     *)
(* hardware then shows armed, capturing (after a trigger pulse, when the   *)
(* saved_* snapshot is taken) and fired in the status register.            *)
(***************************************************************************)
\* Bit b (a power of two) of register value x.
Bit(x, b) == (x \div b) % 2

\* A test of the fired bit that is true when the bit is set.
HasFiredWhenSet == Bit(Status, STATUS_FIRED) = 1

\* fpga.HasFired(): (Regs.Status & uint32(STATUS_FIRED)) == 0.
HasFired == Bit(Status, STATUS_FIRED) = 0

\* The digitizer is armed or capturing: between arm and fired.
MidCapture == Bit(Status, STATUS_ARMED) = 1 \/ Bit(Status, STATUS_CAPTURING) = 1

\* A trigger pulse reaches the armed digitizer: counts are snapshot, capture begins.
FpgaTrigger ==
    /\ Status = STATUS_ARMED
    /\ \E gap \in TrigGaps, d \in ArpSteps :
         /\ trigCount' = trigCount + gap
         /\ arpCount' = arpCount + d
         /\ savedTrig' = trigCount + gap
         /\ savedArp' = arpCount + d
    /\ Status' = STATUS_CAPTURING
    /\ UNCHANGED <<bufVars, pc, ret, held, stamp, NumSamp, loopVars, sweepVars, busVars>>
    /\ UNCHANGED ctlVars
    /\ UNCHANGED <<fp, stop, thr, gen>>

\* The capture is complete.
FpgaDone ==
    /\ Status = STATUS_CAPTURING
    /\ Status' = STATUS_FIRED
    /\ UNCHANGED <<bufVars, pc, ret, held, trigCount, stamp, savedTrig, savedArp, arpCount,
                   NumSamp, loopVars, sweepVars, busVars>>
    /\ UNCHANGED ctlVars
    /\ UNCHANGED <<fp, stop, thr, gen>>

(***************************************************************************)
(* Clients: a parameter-change request may be queued at any time; a        *)
(* subscriber may empty its mailbox at any time, or never.                 *)
(***************************************************************************)
\* Values requested for num_samp: the legal counts and one the ring cannot hold.
NumSampVals == LegalNumSamp \cup {SampBuffLen - 1}

ClientRequest ==
    /\ Len(queue) < MaxQueue
    /\ arms < MaxArms
    /\ \E v \in NumSampVals : queue' = Append(queue, v)
    /\ UNCHANGED <<bufVars, pc, ret, held, trigCount, stamp, fpgaVars, arms, dropped,
                   timeouts, loc, sweepVars, busVars>>
    /\ UNCHANGED ctlVars
    /\ UNCHANGED <<fp, stop, thr, gen>>

ClientTake ==
    /\ \E c \in Clients :
         /\ mailbox[c].kind # "none"
         /\ mailbox' = [mailbox EXCEPT ![c] = NoItem]
    /\ UNCHANGED <<bufVars, pc, ret, held, trigCount, stamp, fpgaVars, loopVars, sweepVars,
                   drops>>
    /\ UNCHANGED ctlVars
    /\ UNCHANGED <<fp, stop, thr, gen>>

(***************************************************************************)
(* The sweep accumulator, run on each newly captured scanline with ARP     *)
(* count arp, handle h and trigger count trig.  Sweep.n is a uint16.       *)
(***************************************************************************)
\* An accumulator that never closes a sweep: every scanline extends it.
AccumulateNoClose(sw, arp, h, trig) ==
    IF ~sw.open
    THEN [sweep |-> [open |-> TRUE, ARP |-> arp, n |-> 1, s1 |-> h, s2 |-> h, ts0 |-> trig,
                     tw1 |-> trig],
          closed |-> FALSE]
    ELSE [sweep |-> [sw EXCEPT !.n = (sw.n + 1) % 65536, !.s2 = h, !.tw1 = trig],
          closed |-> FALSE]

\* An accumulator that does not count the scanline a sweep is rooted at.
AccumulateFirstUncounted(sw, arp, h, trig) ==
    IF ~sw.open
    THEN [sweep |-> [open |-> TRUE, ARP |-> arp, n |-> 0, s1 |-> h, s2 |-> h, ts0 |-> trig,
                     tw1 |-> trig],
          closed |-> FALSE]
    ELSE IF arp # sw.ARP
         THEN [sweep |-> [open |-> TRUE, ARP |-> arp, n |-> 0, s1 |-> h, s2 |-> h,
                          ts0 |-> trig, tw1 |-> trig],
               closed |-> TRUE]
         ELSE [sweep |-> [sw EXCEPT !.n = (sw.n + 1) % 65536, !.s2 = h, !.tw1 = trig],
               closed |-> FALSE]

Accumulate(sw, arp, h, trig) ==
    IF ~sw.open
    THEN [sweep |-> [open |-> TRUE, ARP |-> arp, n |-> 1, s1 |-> h, s2 |-> h, ts0 |-> trig,
                     tw1 |-> trig],
          closed |-> FALSE]
    ELSE IF arp # sw.ARP
         THEN [sweep |-> [open |-> TRUE, ARP |-> arp, n |-> 1, s1 |-> h, s2 |-> h,
                          ts0 |-> trig, tw1 |-> trig],
               closed |-> TRUE]
         ELSE [sweep |-> [sw EXCEPT !.n = (sw.n + 1) % 65536, !.s2 = h, !.tw1 = trig],
               closed |-> FALSE]

(***************************************************************************)
(* The notification bus: one-slot mailboxes.  A post never waits; a        *)
(* notification still in the mailbox is replaced by the newer one and the  *)
(* subscriber's drop counter goes up by one.                               *)
(***************************************************************************)
\* A post that keeps the unconsumed notification and drops the new one.
PostKeepOlder(box, item) == IF box.kind # "none" THEN box ELSE item

Post(box, item) == item

DropsAfter(box, d) == IF box.kind # "none" THEN d + 1 ELSE d

(***************************************************************************)
(* The accumulator alone, fed a stream of scanlines with consecutive       *)
(* trigger counts.  The ARP count may change (the antenna has gone round)  *)
(* after any number of scanlines; the stream has sweeps of a few           *)
(* scanlines, sweeps of MAX_SWEEP_SCANLINES, the longest of the sizing     *)
(* constants, and sweeps that go on past the range of Sweep.n (the ARP     *)
(* count stays as it is for more than 65535 pulses: a slow or stopped      *)
(* antenna, or no ARP signal).                                             *)
(***************************************************************************)
\* Rotations (ARP pulses) in the stream.
MaxRotations == 2

\* Sweeps end after at most ShortSweep scanlines, at the full length of the
\* sizing constants, or once they have LongSweep scanlines or more.
ShortSweep == 2

LongSweep == 65535

\* Scanlines in the stream.
MaxFeed == 65538

\* The number of scanlines accumulated in sweep sw.
Accumulated(sw) == IF sw.open THEN sw.tw1 - sw.ts0 + 1 ELSE 0

FeedScanline ==
    /\ pc = "idle"
    /\ loc.trig < MaxFeed
    /\ \E d \in ArpSteps :
         /\ d = 1 => /\ loc.arp < MaxRotations
                     /\ \/ Accumulated(sweep) <= ShortSweep
                        \/ Accumulated(sweep) = MAX_SWEEP_SCANLINES
                        \/ Accumulated(sweep) >= LongSweep
         /\ LET trig == loc.trig + 1
                arp == loc.arp + d
                h == ScanlineHandle(trig % ScanBuffLen, trig)
                a == Accumulate(sweep, arp, h, trig)
            IN  /\ sweep' = a.sweep
                /\ lastClosed' = IF a.closed THEN sweep ELSE lastClosed
                /\ loc' = [trig |-> trig, arp |-> arp, closed |-> a.closed]
    /\ UNCHANGED <<bufVars, pc, ret, held, trigCount, stamp, fpgaVars, queue, arms, dropped,
                   timeouts, busVars>>
    /\ UNCHANGED ctlVars
    /\ UNCHANGED <<fp, stop, thr, gen>>

SweepNext == FeedScanline

SpecSweep == Init /\ [][SweepNext]_vars

(***************************************************************************)
(* A sweep as it is exposed to a client: two runs of slots of the scanline *)
(* ring, each from (inclusive) .. to (exclusive).  Of a sweep longer than  *)
(* the ring only the newest scanlines are still there.                     *)
(***************************************************************************)
\* An exposure that takes the whole sweep from its first scanline on.
ExposeFromFirst(sw, K) ==
    IF sw.s1.index + sw.n > K
    THEN [lines |-> [from |-> sw.s1.index, to |-> K],
          lines2 |-> [from |-> 0, to |-> sw.s1.index + sw.n - K]]
    ELSE [lines |-> [from |-> sw.s1.index, to |-> sw.s1.index + sw.n],
          lines2 |-> [from |-> 0, to |-> 0]]

Expose(sw, K) ==
    LET m == IF sw.n < K THEN sw.n ELSE K
        first == (sw.s2.index + 1 + K - m) % K
    IN  IF first + m > K
        THEN [lines |-> [from |-> first, to |-> K],
              lines2 |-> [from |-> 0, to |-> first + m - K]]
        ELSE [lines |-> [from |-> first, to |-> first + m],
              lines2 |-> [from |-> 0, to |-> 0]]

\* The scenario: a scanline ring of 1000 slots and 1200 pulses under one ARP.
S3Capacity == 1000

S3Pulses == 1200

\* One pulse of the scenario: pulse number p (from 1) takes slot (p-1) mod
\* capacity, as ScanlineBuff.Next hands the slots out, and is accumulated.
FeedS3 ==
    /\ pc = "idle"
    /\ loc.trig < S3Pulses
    /\ LET trig == loc.trig + 1
           h == ScanlineHandle(loc.trig % S3Capacity, trig)
           a == Accumulate(sweep, ArpStart, h, trig)
       IN  /\ sweep' = a.sweep
           /\ lastClosed' = IF a.closed THEN sweep ELSE lastClosed
           /\ loc' = [trig |-> trig, arp |-> ArpStart, closed |-> a.closed]
    /\ UNCHANGED <<bufVars, pc, ret, held, trigCount, stamp, fpgaVars, queue, arms, dropped,
                   timeouts, busVars, ctlVars, fp, stop, thr, gen>>

SpecS3 == Init /\ [][FeedS3]_vars

(***************************************************************************)
(* Scenario S2: 450 pulses under ARP count 10, then the count flips to 11. *)
(* Each pulse takes the next slot of the scanline ring, is accumulated,    *)
(* and the notifications are posted: the pulse to the pulse subscribers,   *)
(* a closed sweep to the sweep subscribers.  Nobody empties a mailbox, so  *)
(* a subscriber was posted to drops + 1 times when its mailbox is full.    *)
(***************************************************************************)
S2Pulses == 450

FeedS2 ==
    /\ pc = "idle"
    /\ loc.trig <= S2Pulses
    /\ LET trig == loc.trig + 1
           arp == IF trig <= S2Pulses THEN ArpStart ELSE ArpStart + 1
           h == ScanlineHandle(loc.trig % SCANLINE_BUFF_SIZE, trig)
           a == Accumulate(sweep, arp, h, trig)
           item(c) == IF Kind(c) = "pulse" THEN PulseItem(h.index, trig)
                      ELSE IF a.closed THEN SweepItem(sweep) ELSE NoItem
       IN  /\ sweep' = a.sweep
           /\ lastClosed' = IF a.closed THEN sweep ELSE lastClosed
           /\ loc' = [trig |-> trig, arp |-> arp, closed |-> a.closed]
           /\ mailbox' = [c \in Clients |->
                            IF item(c).kind = "none" THEN mailbox[c]
                            ELSE Post(mailbox[c], item(c))]
           /\ drops' = [c \in Clients |->
                            IF item(c).kind = "none" THEN drops[c]
                            ELSE DropsAfter(mailbox[c], drops[c])]
    /\ UNCHANGED <<bufVars, pc, ret, held, trigCount, stamp, fpgaVars, queue, arms, dropped,
                   timeouts, ctlVars, fp, stop, thr, gen>>

SpecS2 == Init /\ [][FeedS2]_vars

(***************************************************************************)
(* A throttled-pulse subscription with minimum interval MinInterval.  The  *)
(* scanlines are captured at increasing times; each one is delivered if    *)
(* the subscriber has had none yet or the last one it had was captured at  *)
(* least MinInterval earlier, and passed over otherwise.  The delivery is  *)
(* a post to the one-slot mailbox, as for every subscriber.                *)
(***************************************************************************)
\* The interval, the gaps between captures, and the end of the run.
MinInterval == 3

TickGaps == {1, 2}

MaxClock == 12

\* A throttle that wants more than the interval between two deliveries.
EligibleAfter(t, last) == last < 0 \/ t - last > MinInterval

Eligible(t, last) == last < 0 \/ t - last >= MinInterval

CaptureThrottled ==
    /\ thr.t < MaxClock
    /\ \E g \in TickGaps :
         LET t == thr.t + g
         IN  thr' = IF Eligible(t, thr.last)
                    THEN [t |-> t, last |-> t,
                          box |-> Post(thr.box, PulseItem(0, t)),
                          lost |-> DropsAfter(thr.box, thr.lost)]
                    ELSE [thr EXCEPT !.t = t]
    /\ UNCHANGED <<bufVars, pc, ret, held, trigCount, stamp, fpgaVars, loopVars, sweepVars,
                   busVars, ctlVars, fp, stop, gen>>

\* The subscriber empties its mailbox, at any time or never.
ThrottledTake ==
    /\ thr.box.kind # "none"
    /\ thr' = [thr EXCEPT !.box = NoItem]
    /\ UNCHANGED <<bufVars, pc, ret, held, trigCount, stamp, fpgaVars, loopVars, sweepVars,
                   busVars, ctlVars, fp, stop, gen>>

ThrottleNext ==
    \/ CaptureThrottled
    \/ ThrottledTake

SpecThrottle == Init /\ [][ThrottleNext]_vars

(***************************************************************************)
(* A run of the generator: main() extracts the registers of fpga.Regs as   *)
(* they are laid out on the platform the generator is built for, then      *)
(* writes the five files one after the other, each with one entry per      *)
(* register in order.  gen.i registers have been written to file gen.file. *)
(***************************************************************************)
\* The generator is started on one of the platforms.
GenInit ==
    /\ Start
    /\ fp = NoFpga
    /\ gen \in {[NoGen EXCEPT !.align = a] : a \in Aligns}

\* regs := make([]reg, 0, 10); ExtractRegs(&regs, new(fpga.Regs)); os.Create
\* of the first file.
Extract ==
    /\ gen.align \in Aligns
    /\ gen.file = 0
    /\ gen' = [gen EXCEPT !.regs = ExtractRegs(gen.align), !.file = 1]
    /\ UNCHANGED <<bufVars, pc, ret, held, trigCount, stamp, fpgaVars, loopVars, sweepVars,
                   busVars, ctlVars, fp, stop, thr>>

\* One pass of the loop over regs[i] that writes file f: what the method
\* returns for the register is printed; after the last register the file
\* is closed and the next one created.
Emit(f, Method(_)) ==
    /\ gen.file = f
    /\ gen.i < Len(gen.regs)
    /\ gen' = [gen EXCEPT !.out[f] = @ \o Method(gen.regs[gen.i + 1]),
                          !.i = IF gen.i + 1 = Len(gen.regs) THEN 0 ELSE gen.i + 1,
                          !.file = IF gen.i + 1 = Len(gen.regs) THEN f + 1 ELSE f]
    /\ UNCHANGED <<bufVars, pc, ret, held, trigCount, stamp, fpgaVars, loopVars, sweepVars,
                   busVars, ctlVars, fp, stop, thr>>

EmitMMap ==
    /\ gen.file = 1
    /\ Emit(1, MMap)

EmitDef ==
    /\ gen.file = 2
    /\ Emit(2, Def)

EmitGetter ==
    /\ gen.file = 3
    /\ Emit(3, Getter)

EmitSetter ==
    /\ gen.file = 4
    /\ Emit(4, Setter)

EmitPulser ==
    /\ gen.file = 5
    /\ Emit(5, Pulser)

GenNext ==
    \/ Extract
    \/ EmitMMap
    \/ EmitDef
    \/ EmitGetter
    \/ EmitSetter
    \/ EmitPulser

SpecGen == GenInit /\ [][GenNext]_vars

(***************************************************************************)
(* The control functions of package fpga: range-checked setters, the fired *)
(* test, and generic access to the register block by name or by index.     *)
(***************************************************************************)
SAMPLES_PER_BUFF == 16 * 1024

CMD_ARM_BIT == 1

CMD_RST_BIT == 2

\* The value of the 32-bit word at a lane of the register block.
LaneGet(x) ==
    CASE x = "NumSamp" -> NumSamp
      [] x = "Status" -> Status
      [] x = "TrigCount" -> trigCount
      [] x = "ARPCount" -> arpCount
      [] x = "SavedTrigCount" -> savedTrig
      [] x = "SavedARPCount" -> savedArp
      [] OTHER -> regs[x]

\* The access mode of a lane, and the lanes of mode rw.
LaneMode(x) == Lanes[RegMap(x) + 1].mode

Writable == {x \in LaneNames : LaneMode(x) = "rw"}

\* The whole register block, lane by lane.
Block == [x \in LaneNames |-> LaneGet(x)]

\* The lane stored at byte offset o of the register block.
LaneAt(o) == Lanes[CHOOSE i \in 1 .. NumRegs : Lanes[i].offset = o]

\* A store that keeps only the low half of the word.
StoreLow16(o, v) ==
    LET l == LaneAt(o) IN
    /\ NumSamp' = IF l.name = "NumSamp" THEN v % 65536 ELSE NumSamp
    /\ regs' = IF l.mode = "rw" /\ l.name \in DOMAIN regs
               THEN [regs EXCEPT ![l.name] = v % 65536] ELSE regs
    /\ UNCHANGED <<Status, trigCount, arpCount, savedTrig, savedArp>>

\* A 32-bit store to byte offset o of the mapped block.  The digitizer keeps
\* the word only in a register of mode rw; a store to a register of mode r is
\* ignored, and a store to Command (mode p) pulses its bits and keeps nothing.
Store(o, v) ==
    LET l == LaneAt(o) IN
    /\ NumSamp' = IF l.name = "NumSamp" THEN v ELSE NumSamp
    /\ regs' = IF l.mode = "rw" /\ l.name \in DOMAIN regs
               THEN [regs EXCEPT ![l.name] = v] ELSE regs
    /\ Status' = IF l.mode = "p" /\ Bit(v, CMD_RST_BIT) = 1 THEN 0
                 ELSE IF l.mode = "p" /\ Bit(v, CMD_ARM_BIT) = 1 /\ Status # STATUS_CAPTURING
                      THEN STATUS_ARMED
                      ELSE Status
    /\ UNCHANGED <<trigCount, arpCount, savedTrig, savedArp>>

\* SetDecim without the lower limit.
SetDecimFromZero(decim) == decim <= 65536

\* SetDecim(decim): whether the rate is accepted.
SetDecim(decim) == ~(decim < 1 \/ decim > 65536)

\* SetNumSamp(n): whether the count is accepted.
SetNumSamp(n) == ~(n > SAMPLES_PER_BUFF \/ n < 1)

\* The range test of the generic accessors, reversed at the upper end.
IndexOKInclusive(i) == ~(i < 0 \/ i > NumRegs)

\* The range test of GetRegByIndex and SetRegByIndex.
IndexOK(i) == ~(i < 0 \/ i >= NumRegs)

\* GetRegByIndex(i): (value, ok).
GetRegByIndex(i) ==
    IF ~IndexOK(i) THEN [val |-> 0, ok |-> FALSE]
    ELSE [val |-> LaneGet(LaneAt(RegIndex[i]).name), ok |-> TRUE]

\* GetRegByName(x): (value, ok).
GetRegByName(x) ==
    IF RegMap(x) = -1 THEN [val |-> 0, ok |-> FALSE]
    ELSE GetRegByIndex(RegMap(x))

(***************************************************************************)
(* Set-up and teardown of the FPGA object, in the three revisions of the   *)
(* package: New and Close of type FPGA, New and Close of type OgdarFPGA,   *)
(* and Init of the package-level revision (which has no Close).            *)
(***************************************************************************)
Range(q) == {q[i] : i \in DOMAIN q}

\* The typed view set from the mapping of a region.
ViewOf(rev, r) ==
    CASE r = "reg" -> IF rev = "OgdarFPGA" THEN "OgdarRegs"
                      ELSE IF rev = "Open" THEN "Ogd" ELSE "Regs"
      [] r = "osc" -> IF rev = "Open" THEN "Osc" ELSE "OscRegs"
      [] r = "vid" -> "VidBuf"
      [] r = "trig" -> "TrigBuf"
      [] r = "acp" -> "ACPBuf"
      [] r = "arp" -> "ARPBuf"

\* The regions mapped when step `fail` of the constructor fails (step 1 is the
\* open of /dev/mem, step k+1 the mapping of region k; 0: no step fails).
MappedBefore(regions, fail) ==
    IF fail = 0 THEN regions
    ELSE IF fail = 1 THEN << >>
    ELSE SubSeq(regions, 1, fail - 2)

\* The object after the constructor's steps before the failing one.  kept:
\* the regions whose mapping the constructor stores in a slice field.
Built(rev, regions, kept, fail) ==
    LET got == MappedBefore(regions, fail) IN
    [rev |-> rev, life |-> "up", memfile |-> fail # 1, live |-> Range(got),
     slices |-> Range(got) \cap kept, views |-> {ViewOf(rev, r) : r \in Range(got)},
     maps |-> got, unmaps |-> << >>, hdr |-> NoFpga.hdr]

\* syscall.Munmap on each slice field in the order given; an unmap of a nil
\* slice returns an error and does nothing.
MunmapAll(m, order) ==
    [m EXCEPT !.live = @ \ (Range(order) \cap m.slices),
              !.unmaps = @ \o SelectSeq(order, LAMBDA r : r \in m.slices /\ r \in m.live)]

FpgaRegions == <<"reg", "vid", "trig", "acp", "arp">>

\* (*FPGA).Close
CloseFPGA(m) ==
    IF ~m.memfile THEN m
    ELSE [MunmapAll(m, <<"arp", "acp", "trig", "vid", "reg">>) EXCEPT
              !.views = @ \ {"ARPBuf", "ACPBuf", "TrigBuf", "VidBuf", "Regs"},
              !.memfile = FALSE]

\* New() of type FPGA
NewFPGA(fail) ==
    LET m == Built("FPGA", FpgaRegions, Range(FpgaRegions), fail) IN
    IF fail = 0 THEN m
    ELSE IF fail = 1 THEN [m EXCEPT !.life = "failed"]
    ELSE [CloseFPGA(m) EXCEPT !.life = "failed"]

OgdarRegions == <<"reg", "osc", "vid", "trig", "acp", "arp">>

\* (*OgdarFPGA).Close
CloseOgdarFPGA(m) ==
    IF ~m.memfile THEN m
    ELSE [MunmapAll(m, <<"arp", "acp", "trig", "vid">>) EXCEPT
              !.views = @ \ {"ARPBuf", "ACPBuf", "TrigBuf", "VidBuf"},
              !.memfile = FALSE]

\* New() of type OgdarFPGA: the two register blocks are mapped through a
\* local variable and kept in no slice field.
NewOgdarFPGA(fail) ==
    LET m == Built("OgdarFPGA", OgdarRegions, {"vid", "trig", "acp", "arp"}, fail) IN
    IF fail = 0 THEN m
    ELSE IF fail = 1 THEN [m EXCEPT !.life = "failed"]
    ELSE [CloseOgdarFPGA(m) EXCEPT !.life = "failed"]

\* Close() of the first revision of the package, the same statements as
\* (*OgdarFPGA).Close.
CloseOpen(m) ==
    IF ~m.memfile THEN m
    ELSE [MunmapAll(m, <<"arp", "acp", "trig", "vid">>) EXCEPT
              !.views = @ \ {"ARPBuf", "ACPBuf", "TrigBuf", "VidBuf"},
              !.memfile = FALSE]

\* Open() of the first revision of the package: the register blocks Ogd and
\* Osc are mapped through a local variable and kept in no slice field.
Open(fail) ==
    LET m == Built("Open", OgdarRegions, {"vid", "trig", "acp", "arp"}, fail) IN
    IF fail = 0 THEN m
    ELSE IF fail = 1 THEN [m EXCEPT !.life = "failed"]
    ELSE [CloseOpen(m) EXCEPT !.life = "failed"]

\* Init() of the package-level revision: every failure jumps to a panic.
FpgaInit(fail) ==
    LET m == Built("Init", FpgaRegions, Range(FpgaRegions), fail) IN
    IF fail = 0 THEN m ELSE [m EXCEPT !.life = "panicked"]

CallNewFPGA ==
    /\ fp.life = "none"
    /\ \E fail \in 0 .. Len(FpgaRegions) + 1 : fp' = NewFPGA(fail)
    /\ UNCHANGED <<bufVars, pc, ret, held, trigCount, stamp, fpgaVars, loopVars, sweepVars,
                   busVars, ctlVars, stop, thr, gen>>

CallNewOgdarFPGA ==
    /\ fp.life = "none"
    /\ \E fail \in 0 .. Len(OgdarRegions) + 1 : fp' = NewOgdarFPGA(fail)
    /\ UNCHANGED <<bufVars, pc, ret, held, trigCount, stamp, fpgaVars, loopVars, sweepVars,
                   busVars, ctlVars, stop, thr, gen>>

CallOpen ==
    /\ fp.life = "none"
    /\ \E fail \in 0 .. Len(OgdarRegions) + 1 : fp' = Open(fail)
    /\ UNCHANGED <<bufVars, pc, ret, held, trigCount, stamp, fpgaVars, loopVars, sweepVars,
                   busVars, ctlVars, stop, thr, gen>>

CallInit ==
    /\ fp.life = "none"
    /\ \E fail \in 0 .. Len(FpgaRegions) + 1 : fp' = FpgaInit(fail)
    /\ UNCHANGED <<bufVars, pc, ret, held, trigCount, stamp, fpgaVars, loopVars, sweepVars,
                   busVars, ctlVars, stop, thr, gen>>

\* The program after a load or store through a nil pointer: the run-time
\* panic ends it.
Crashed(m) == [m EXCEPT !.life = "crashed"]

\* Close() on what a constructor returned; a second Close finds memfile nil
\* and returns.  A failed constructor returned the nil pointer, and Close()
\* reads the field memfile through it.
CallClose ==
    /\ fp.life \in {"up", "down", "failed"}
    /\ fp.rev \in {"FPGA", "OgdarFPGA", "Open"}
    /\ fp' = IF fp.life = "failed" THEN Crashed(fp)
             ELSE [(CASE fp.rev = "FPGA" -> CloseFPGA(fp)
                      [] fp.rev = "OgdarFPGA" -> CloseOgdarFPGA(fp)
                      [] fp.rev = "Open" -> CloseOpen(fp)) EXCEPT !.life = "down"]
    /\ UNCHANGED <<bufVars, pc, ret, held, trigCount, stamp, fpgaVars, loopVars, sweepVars,
                   busVars, ctlVars, stop, thr, gen>>

\* The control functions read and write through Regs: the block is mapped.
Mapped == fp.rev = "Init" /\ fp.life = "up" /\ "Regs" \in fp.views

\* Rates and counts offered to the setters: both sides of every limit.
SetVals == {0, 1, 2, 3, SAMPLES_PER_BUFF, SAMPLES_PER_BUFF + 1, 65536, 65537}

\* Words offered to the generic setters.
RegVals == {5, 2147483647}

\* Names offered to the generic accessors: every key, the name of a 64-bit
\* field (which is not a key) and a name that is no field at all.
NameVals == LaneNames \cup {"TrigClock", "NoSuchReg"}

\* Indexes offered to the generic accessors.
IndexVals == -1 .. NumRegs + 1

MaxCalls == 2

CallSetDecim ==
    /\ Mapped
    /\ calls < MaxCalls
    /\ \E decim \in SetVals :
         /\ cret' = [NoCall EXCEPT !.op = "SetDecim", !.v = decim, !.ok = SetDecim(decim)]
         /\ regs' = IF SetDecim(decim) THEN [regs EXCEPT !["DecRate"] = decim] ELSE regs
    /\ calls' = calls + 1
    /\ UNCHANGED <<bufVars, pc, ret, held, trigCount, stamp, fpgaVars, loopVars, sweepVars, busVars>>
    /\ UNCHANGED <<fp, stop, thr, gen>>

CallSetNumSamp ==
    /\ Mapped
    /\ calls < MaxCalls
    /\ \E n \in SetVals :
         /\ cret' = [NoCall EXCEPT !.op = "SetNumSamp", !.v = n, !.ok = SetNumSamp(n)]
         /\ NumSamp' = IF SetNumSamp(n) THEN n ELSE NumSamp
    /\ calls' = calls + 1
    /\ UNCHANGED <<bufVars, pc, ret, held, trigCount, stamp, Status, savedTrig, savedArp,
                   arpCount, loopVars, sweepVars, busVars, regs>>
    /\ UNCHANGED <<fp, stop, thr, gen>>

\* HasFired(): the result, with the Status word it was computed from.
CallHasFired ==
    /\ Mapped
    /\ calls < MaxCalls
    /\ cret' = [NoCall EXCEPT !.op = "HasFired", !.ok = HasFired, !.val = Status]
    /\ calls' = calls + 1
    /\ UNCHANGED <<bufVars, pc, ret, held, trigCount, stamp, fpgaVars, loopVars, sweepVars,
                   busVars, regs>>
    /\ UNCHANGED <<fp, stop, thr, gen>>

CallGetRegByName ==
    /\ Mapped
    /\ calls < MaxCalls
    /\ \E x \in NameVals :
         cret' = [NoCall EXCEPT !.op = "GetRegByName", !.name = x,
                                !.ok = GetRegByName(x).ok, !.val = GetRegByName(x).val]
    /\ calls' = calls + 1
    /\ UNCHANGED <<bufVars, pc, ret, held, trigCount, stamp, fpgaVars, loopVars, sweepVars,
                   busVars, regs>>
    /\ UNCHANGED <<fp, stop, thr, gen>>

CallGetRegByIndex ==
    /\ Mapped
    /\ calls < MaxCalls
    /\ \E i \in IndexVals :
         cret' = [NoCall EXCEPT !.op = "GetRegByIndex", !.i = i,
                                !.ok = GetRegByIndex(i).ok, !.val = GetRegByIndex(i).val]
    /\ calls' = calls + 1
    /\ UNCHANGED <<bufVars, pc, ret, held, trigCount, stamp, fpgaVars, loopVars, sweepVars,
                   busVars, regs>>
    /\ UNCHANGED <<fp, stop, thr, gen>>

\* SetRegByIndex(i, v)
SetRegByIndex(i, v) ==
    IF ~IndexOK(i)
    THEN /\ cret'.ok = FALSE
         /\ UNCHANGED <<fpgaVars, trigCount, regs>>
    ELSE /\ Store(RegIndex[i], v)
         /\ cret'.ok = TRUE

\* SetRegByName(x, v)
SetRegByName(x, v) ==
    IF RegMap(x) = -1
    THEN /\ cret'.ok = FALSE
         /\ UNCHANGED <<fpgaVars, trigCount, regs>>
    ELSE SetRegByIndex(RegMap(x), v)

CallSetRegByIndex ==
    /\ Mapped
    /\ calls < MaxCalls
    /\ \E i \in IndexVals, v \in RegVals :
         /\ cret' \in {[NoCall EXCEPT !.op = "SetRegByIndex", !.i = i, !.v = v, !.ok = b] :
                          b \in BOOLEAN}
         /\ SetRegByIndex(i, v)
    /\ calls' = calls + 1
    /\ UNCHANGED <<bufVars, pc, ret, held, stamp, loopVars, sweepVars, busVars>>
    /\ UNCHANGED <<fp, stop, thr, gen>>

CallSetRegByName ==
    /\ Mapped
    /\ calls < MaxCalls
    /\ \E x \in NameVals, v \in RegVals :
         /\ cret' \in {[NoCall EXCEPT !.op = "SetRegByName", !.name = x, !.v = v, !.ok = b] :
                          b \in BOOLEAN}
         /\ SetRegByName(x, v)
    /\ calls' = calls + 1
    /\ UNCHANGED <<bufVars, pc, ret, held, stamp, loopVars, sweepVars, busVars>>
    /\ UNCHANGED <<fp, stop, thr, gen>>

(***************************************************************************)
(* Arm() and Reset(): Regs.Command |= bit.  The word is read from the      *)
(* block, the bit is set in it and the word is stored back; the digitizer  *)
(* reacts to the bits of the stored word.                                  *)
(***************************************************************************)
\* x | b for a word x and a one-bit mask b.
OrBit(x, b) == IF Bit(x, b) = 1 THEN x ELSE x + b

\* An Arm() that takes CMD_ARM_BIT for the index of the bit, not its mask.
ArmWordAtIndex(c) == OrBit(c, 2 ^ CMD_ARM_BIT)

\* The word Arm() and Reset() store for the word c read from Command.
ArmWord(c) == OrBit(c, CMD_ARM_BIT)

ResetWord(c) == OrBit(c, CMD_RST_BIT)

\* Arm(): Regs.Command |= CMD_ARM_BIT
Arm == Store(RegIndex[RegMap("Command")], ArmWord(LaneGet("Command")))

CallArm ==
    /\ Mapped
    /\ calls < MaxCalls
    /\ LET c == LaneGet("Command")
       IN  /\ cret' = [NoCall EXCEPT !.op = "Arm", !.val = c, !.v = ArmWord(c), !.ok = TRUE]
           /\ Arm
    /\ calls' = calls + 1
    /\ UNCHANGED <<bufVars, pc, ret, held, stamp, loopVars, sweepVars, busVars>>
    /\ UNCHANGED <<fp, stop, thr, gen>>

CallReset ==
    /\ Mapped
    /\ calls < MaxCalls
    /\ LET c == LaneGet("Command")
       IN  /\ cret' = [NoCall EXCEPT !.op = "Reset", !.val = c, !.v = ResetWord(c),
                                    !.ok = TRUE]
           /\ Store(RegIndex[RegMap("Command")], ResetWord(c))
    /\ calls' = calls + 1
    /\ UNCHANGED <<bufVars, pc, ret, held, stamp, loopVars, sweepVars, busVars>>
    /\ UNCHANGED <<fp, stop, thr, gen>>

(***************************************************************************)
(* loadConfig: the section digdar of ogdar.toml is decoded into the        *)
(* register block, each key into the field of the same name.               *)
(***************************************************************************)
\* Keys of the section digdar offered in a configuration file; DecimRate is
\* the key the distributed ogdar.toml uses for the decimation rate.
ConfigKeys == {"DecimRate", "DecRate", "NumSamp", "Options"}

ConfigVals(k) ==
    CASE k = "DecimRate" -> {0, 1}
      [] k = "DecRate" -> {5}
      [] k = "NumSamp" -> {0, 4000, 4001}
      [] k = "Options" -> {3, 7}

\* The configuration files offered: any subset of the keys, each with one of
\* its values.
Configs ==
    {f \in UNION {[K -> {0, 1, 3, 5, 7, 4000, 4001}] : K \in SUBSET ConfigKeys} :
        \A k \in DOMAIN f : f[k] \in ConfigVals(k)}

\* viper.UnmarshalKey("digdar", Regs): the word of field x after the decode;
\* a key is stored in the field of its name, a field without key is kept.
Decode(cfg, x, old) == IF x \in DOMAIN cfg THEN cfg[x] ELSE old

\* loadConfig(): found tells whether a configuration file was read.
CallLoadConfig ==
    /\ Mapped
    /\ calls < MaxCalls
    /\ \E found \in BOOLEAN, cfg \in Configs :
         /\ found \/ cfg = << >>
         /\ cret' = [NoCall EXCEPT !.op = "loadConfig", !.ok = found, !.cfg = cfg]
         /\ regs' = IF found
                    THEN [x \in DOMAIN regs |->
                            IF x \in Writable THEN Decode(cfg, x, regs[x]) ELSE regs[x]]
                    ELSE regs
         /\ NumSamp' = IF found THEN Decode(cfg, "NumSamp", NumSamp) ELSE NumSamp
    /\ calls' = calls + 1
    /\ UNCHANGED <<bufVars, pc, ret, held, trigCount, stamp, Status, savedTrig, savedArp,
                   arpCount, loopVars, sweepVars, busVars, fp, stop, thr, gen>>

\* Trigger sources: TRG_NONE, TRG_IMMEDIATE, TRG_TRIG, TRG_ACP, TRG_ARP.
TrigVals == 0 .. 4

\* SelectTrig(t): Regs.TrigSource = uint32(t).
CallSelectTrig ==
    /\ Mapped
    /\ calls < MaxCalls
    /\ \E t \in TrigVals :
         /\ cret' = [NoCall EXCEPT !.op = "SelectTrig", !.v = t, !.ok = TRUE]
         /\ Store(RegIndex[RegMap("TrigSource")], t)
    /\ calls' = calls + 1
    /\ UNCHANGED <<bufVars, pc, ret, held, stamp, loopVars, sweepVars, busVars>>
    /\ UNCHANGED <<fp, stop, thr, gen>>

(***************************************************************************)
(* Calls through a nil pointer.  A method called on the nil pointer a      *)
(* failed constructor returned, or reading a pointer field that is nil,    *)
(* ends in a run-time panic at its first load or store through it; a test  *)
(* of the argument that comes before returns normally.                     *)
(***************************************************************************)
\* The receiver is nil, or its pointer field `view` is.
Faults(view) == fp.life = "failed" \/ view \notin fp.views

\* The record of a call of function f that ended in a panic.
Panic(f) == [NoCall EXCEPT !.op = "panic", !.name = f]

\* x & mask for a mask of low bits.
LowBits(x, mask) == x % (mask + 1)

(***************************************************************************)
(* The methods of type FPGA.  New() sets Regs to the address of the field  *)
(* regSlice, not to that of the mapped bytes, so the words of the register *)
(* block are the words of the slice headers that follow in the object: on  *)
(* the 32-bit target word 0 (Command) is the data pointer of regSlice,     *)
(* word 1 (TrigSource) its len, word 2 (NumSamp) its cap, word 3 (DecRate) *)
(* the data pointer of vidSlice.  A store through Regs never reaches the   *)
(* digitizer; it changes a slice header, and syscall.Munmap refuses a      *)
(* slice that is not the one Mmap returned.  Close() sets Regs to nil.     *)
(***************************************************************************)
CONF_ARM_BIT == 1

TRIG_SRC_MASK == 15

HeaderParts == <<"data", "len", "cap">>

\* The fields of Control, the first member of Regs in this revision: fifteen
\* 32-bit words, field j at word j - 1.
ControlFields ==
    <<"Command", "TrigSource", "NumSamp", "DecRate", "Options", "TrigThreshExcite",
      "TrigThreshRelax", "TrigDelay", "TrigLatency", "ACPThreshExcite", "ACPThreshRelax",
      "ACPLatency", "ARPThreshExcite", "ARPThreshRelax", "ARPLatency">>

\* The slice field and the part of its header at the place of register x.
\* The registers after Control (Metadata, Misc, AtTrig) lie past the five
\* headers.
HeaderOf(x) ==
    IF x \notin Range(ControlFields) THEN [region |-> "none", part |-> "none"]
    ELSE LET k == (CHOOSE j \in 1 .. Len(ControlFields) : ControlFields[j] = x) - 1
         IN  [region |-> FpgaRegions[(k \div 3) + 1], part |-> HeaderParts[(k % 3) + 1]]

\* The length of the mapping of a region: BASE_SIZE or BUFF_SIZE_BYTES.
MapLen(r) == IF r = "reg" THEN 327680 ELSE 4 * SAMPLES_PER_BUFF

\* A word of the object: the number off (base ""), or the address of the
\* mapping of region base, which is page-aligned, plus off.
Word(v) == [base |-> "", off |-> v]

\* The word New() left at the place of register x of Control, from the
\* slice Mmap returned.
MmapWord(x) ==
    LET h == HeaderOf(x)
    IN  IF h.part = "data" THEN [base |-> h.region, off |-> 0] ELSE Word(MapLen(h.region))

\* The word read at the place of register x of Control.
HeaderWord(m, x) == IF x \in DOMAIN m.hdr THEN m.hdr[x] ELSE MmapWord(x)

\* w | b for a one-bit mask b below the page size.
OrWord(w, b) == [w EXCEPT !.off = OrBit(@, b)]

\* The header of the slice of region r is the one Mmap returned.
Intact(hdr, r) == \A x \in DOMAIN hdr : HeaderOf(x).region = r => hdr[x] = MmapWord(x)

\* The object after word w is stored at the place of register x of Control:
\* a slice field holds its mapping while its header is what Mmap returned.
StoreHeader(m, x, w) ==
    LET hdr == [y \in DOMAIN m.hdr \cup {x} |-> IF y = x THEN w ELSE m.hdr[y]]
    IN  [m EXCEPT !.hdr = hdr, !.slices = {r \in m.live : Intact(hdr, r)}]

\* The receiver of a method of type FPGA: what New() returned.
FPGAObj == fp.rev = "FPGA" /\ fp.life \in {"up", "down", "failed"}

\* (*FPGA).Arm: fpga.Command |= CONF_ARM_BIT.
FPGA_Arm ==
    /\ FPGAObj
    /\ calls < MaxCalls
    /\ IF Faults("Regs")
       THEN /\ cret' = Panic("FPGA.Arm")
            /\ fp' = Crashed(fp)
       ELSE /\ cret' = [NoCall EXCEPT !.op = "FPGA.Arm", !.ok = TRUE]
            /\ fp' = StoreHeader(fp, "Command",
                                  OrWord(HeaderWord(fp, "Command"), CONF_ARM_BIT))
    /\ calls' = calls + 1
    /\ UNCHANGED <<bufVars, pc, ret, held, trigCount, stamp, fpgaVars, loopVars, sweepVars,
                   busVars, regs, stop, thr, gen>>

\* (*FPGA).SelectTrig
FPGA_SelectTrig ==
    /\ FPGAObj
    /\ calls < MaxCalls
    /\ \E t \in TrigVals :
         IF Faults("Regs")
         THEN /\ cret' = Panic("FPGA.SelectTrig")
              /\ fp' = Crashed(fp)
         ELSE /\ cret' = [NoCall EXCEPT !.op = "FPGA.SelectTrig", !.v = t, !.ok = TRUE]
              /\ fp' = StoreHeader(fp, "TrigSource", Word(t))
    /\ calls' = calls + 1
    /\ UNCHANGED <<bufVars, pc, ret, held, trigCount, stamp, fpgaVars, loopVars, sweepVars,
                   busVars, regs, stop, thr, gen>>

\* (*FPGA).SetDecim
FPGA_SetDecim ==
    /\ FPGAObj
    /\ calls < MaxCalls
    /\ \E decim \in SetVals :
         IF ~SetDecim(decim)
         THEN /\ cret' = [NoCall EXCEPT !.op = "FPGA.SetDecim", !.v = decim, !.ok = FALSE]
              /\ fp' = fp
         ELSE IF Faults("Regs")
         THEN /\ cret' = Panic("FPGA.SetDecim")
              /\ fp' = Crashed(fp)
         ELSE /\ cret' = [NoCall EXCEPT !.op = "FPGA.SetDecim", !.v = decim, !.ok = TRUE]
              /\ fp' = StoreHeader(fp, "DecRate", Word(decim))
    /\ calls' = calls + 1
    /\ UNCHANGED <<bufVars, pc, ret, held, trigCount, stamp, fpgaVars, loopVars, sweepVars,
                   busVars, regs, stop, thr, gen>>

\* (*FPGA).SetNumSamp
FPGA_SetNumSamp ==
    /\ FPGAObj
    /\ calls < MaxCalls
    /\ \E n \in SetVals :
         IF ~SetNumSamp(n)
         THEN /\ cret' = [NoCall EXCEPT !.op = "FPGA.SetNumSamp", !.v = n, !.ok = FALSE]
              /\ fp' = fp
         ELSE IF Faults("Regs")
         THEN /\ cret' = Panic("FPGA.SetNumSamp")
              /\ fp' = Crashed(fp)
         ELSE /\ cret' = [NoCall EXCEPT !.op = "FPGA.SetNumSamp", !.v = n, !.ok = TRUE]
              /\ fp' = StoreHeader(fp, "NumSamp", Word(n))
    /\ calls' = calls + 1
    /\ UNCHANGED <<bufVars, pc, ret, held, trigCount, stamp, fpgaVars, loopVars, sweepVars,
                   busVars, regs, stop, thr, gen>>

\* (*FPGA).HasTriggered: (fpga.TrigSource & TRIG_SRC_MASK) == 0, of the word
\* at the place of TrigSource, the len of regSlice.
FPGA_HasTriggered ==
    /\ FPGAObj
    /\ calls < MaxCalls
    /\ IF Faults("Regs")
       THEN /\ cret' = Panic("FPGA.HasTriggered")
            /\ fp' = Crashed(fp)
       ELSE /\ cret' = [NoCall EXCEPT !.op = "FPGA.HasTriggered",
                                      !.val = HeaderWord(fp, "TrigSource").off,
                                      !.ok = (LowBits(HeaderWord(fp, "TrigSource").off,
                                                      TRIG_SRC_MASK) = 0)]
            /\ fp' = fp
    /\ calls' = calls + 1
    /\ UNCHANGED <<bufVars, pc, ret, held, trigCount, stamp, fpgaVars, loopVars, sweepVars,
                   busVars, regs, stop, thr, gen>>

(***************************************************************************)
(* The methods of type OgdarFPGA, which store to the mapped registers.     *)
(* Close() leaves OscRegs set and its block mapped, so the methods work on *)
(* a closed object as on an open one.                                      *)
(***************************************************************************)
\* The receiver of a method of type OgdarFPGA: what New() returned.
OgdarFPGAObj == fp.rev = "OgdarFPGA" /\ fp.life \in {"up", "down", "failed"}

\* DDOPT_NEGATE_VIDEO | DDOPT_USE_SUM of that revision: 1 | 4.
OgdarArmOptions == 5

OSC_FPGA_TRIG_SRC_MASK == 15

\* (*OgdarFPGA).SetDecim(decim): whether the rate is accepted.
OgdarSetDecim(decim) == decim \in {1, 2, 3, 4, 8, 64, 1024, 8192, 65536}

\* (*OgdarFPGA).Arm: the options are stored, then the arm bit of Command.
OgdarFPGA_Arm ==
    /\ OgdarFPGAObj
    /\ calls < MaxCalls
    /\ IF Faults("OscRegs")
       THEN /\ cret' = Panic("OgdarFPGA.Arm")
            /\ fp' = Crashed(fp)
            /\ UNCHANGED <<regs, Status, NumSamp>>
       ELSE /\ cret' = [NoCall EXCEPT !.op = "OgdarFPGA.Arm", !.v = OgdarArmOptions, !.ok = TRUE]
            /\ regs' = [regs EXCEPT !["Options"] = OgdarArmOptions]
            /\ Status' = IF Status # STATUS_CAPTURING THEN STATUS_ARMED ELSE Status
            /\ UNCHANGED <<fp, NumSamp>>
    /\ calls' = calls + 1
    /\ UNCHANGED <<bufVars, pc, ret, held, trigCount, stamp, savedTrig, savedArp, arpCount,
                   loopVars, sweepVars, busVars, stop, thr, gen>>

\* (*OgdarFPGA).SelectTrig: one store to TrigSource.
OgdarFPGA_SelectTrig ==
    /\ OgdarFPGAObj
    /\ calls < MaxCalls
    /\ \E t \in TrigVals :
         IF Faults("OscRegs")
         THEN /\ cret' = Panic("OgdarFPGA.SelectTrig")
              /\ fp' = Crashed(fp)
              /\ UNCHANGED <<regs, Status, NumSamp>>
         ELSE /\ cret' = [NoCall EXCEPT !.op = "OgdarFPGA.SelectTrig", !.v = t, !.ok = TRUE]
              /\ regs' = [regs EXCEPT !["TrigSource"] = t]
              /\ UNCHANGED <<fp, Status, NumSamp>>
    /\ calls' = calls + 1
    /\ UNCHANGED <<bufVars, pc, ret, held, trigCount, stamp, savedTrig, savedArp, arpCount,
                   loopVars, sweepVars, busVars, stop, thr, gen>>

\* (*OgdarFPGA).SetDecim
OgdarFPGA_SetDecim ==
    /\ OgdarFPGAObj
    /\ calls < MaxCalls
    /\ \E decim \in SetVals \cup {4, 8} :
         IF ~OgdarSetDecim(decim)
         THEN /\ cret' = [NoCall EXCEPT !.op = "OgdarFPGA.SetDecim", !.v = decim, !.ok = FALSE]
              /\ UNCHANGED <<fp, regs, Status, NumSamp>>
         ELSE IF Faults("OscRegs")
         THEN /\ cret' = Panic("OgdarFPGA.SetDecim")
              /\ fp' = Crashed(fp)
              /\ UNCHANGED <<regs, Status, NumSamp>>
         ELSE /\ cret' = [NoCall EXCEPT !.op = "OgdarFPGA.SetDecim", !.v = decim, !.ok = TRUE]
              /\ regs' = [regs EXCEPT !["DecRate"] = decim]
              /\ UNCHANGED <<fp, Status, NumSamp>>
    /\ calls' = calls + 1
    /\ UNCHANGED <<bufVars, pc, ret, held, trigCount, stamp, savedTrig, savedArp, arpCount,
                   loopVars, sweepVars, busVars, stop, thr, gen>>

\* (*OgdarFPGA).SetNumSamp
OgdarFPGA_SetNumSamp ==
    /\ OgdarFPGAObj
    /\ calls < MaxCalls
    /\ \E n \in SetVals :
         IF ~(n <= SAMPLES_PER_BUFF /\ n > 0)
         THEN /\ cret' = [NoCall EXCEPT !.op = "OgdarFPGA.SetNumSamp", !.v = n, !.ok = FALSE]
              /\ UNCHANGED <<fp, regs, Status, NumSamp>>
         ELSE IF Faults("OscRegs")
         THEN /\ cret' = Panic("OgdarFPGA.SetNumSamp")
              /\ fp' = Crashed(fp)
              /\ UNCHANGED <<regs, Status, NumSamp>>
         ELSE /\ cret' = [NoCall EXCEPT !.op = "OgdarFPGA.SetNumSamp", !.v = n, !.ok = TRUE]
              /\ NumSamp' = n
              /\ UNCHANGED <<fp, regs, Status>>
    /\ calls' = calls + 1
    /\ UNCHANGED <<bufVars, pc, ret, held, trigCount, stamp, savedTrig, savedArp, arpCount,
                   loopVars, sweepVars, busVars, stop, thr, gen>>

\* (*OgdarFPGA).HasTriggered: (TrigSource & OSC_FPGA_TRIG_SRC_MASK) == 0.
OgdarFPGA_HasTriggered ==
    /\ OgdarFPGAObj
    /\ calls < MaxCalls
    /\ IF Faults("OscRegs")
       THEN /\ cret' = Panic("OgdarFPGA.HasTriggered")
            /\ fp' = Crashed(fp)
       ELSE /\ cret' = [NoCall EXCEPT !.op = "OgdarFPGA.HasTriggered", !.val = regs["TrigSource"],
                                      !.ok = (LowBits(regs["TrigSource"], OSC_FPGA_TRIG_SRC_MASK) = 0)]
            /\ fp' = fp
    /\ calls' = calls + 1
    /\ UNCHANGED <<bufVars, pc, ret, held, trigCount, stamp, fpgaVars, loopVars, sweepVars,
                   busVars, regs, stop, thr, gen>>

(***************************************************************************)
(* The methods of type OgdarFPGA in the first revision of the package,     *)
(* whose constructor is Open(): the registers are reached through Osc,     *)
(* which Close() leaves set and mapped.  Arm, SelectTrig, SetDecim and     *)
(* SetNumSamp have no result there: ok tells that the call returned.       *)
(* Conf, DataDec and DigdarExtraOptions are that revision's names for      *)
(* Command, DecRate and Options.                                           *)
(***************************************************************************)
\* The receiver of a method: what Open() returned.
OgdarObj == fp.rev = "Open" /\ fp.life \in {"up", "down", "failed"}

\* The word Arm() stores in DigdarExtraOptions.
OgdarExtraOptions == 21

\* Trigger sources offered to SelectTrig(src uint32): the sources 0 to 12 of
\* the register's description at both ends, and a word with no bit under
\* the mask.
SrcVals == {0, 1, 12, 16}

\* (*OgdarFPGA).Arm: the options are stored, then the arm bit of Conf.
Ogdar_Arm ==
    /\ OgdarObj
    /\ calls < MaxCalls
    /\ IF Faults("Osc")
       THEN /\ cret' = Panic("Ogdar.Arm")
            /\ fp' = Crashed(fp)
            /\ UNCHANGED <<regs, Status, NumSamp>>
       ELSE /\ cret' = [NoCall EXCEPT !.op = "Ogdar.Arm", !.v = OgdarExtraOptions, !.ok = TRUE]
            /\ regs' = [regs EXCEPT !["Options"] = OgdarExtraOptions]
            /\ Status' = IF Status # STATUS_CAPTURING THEN STATUS_ARMED ELSE Status
            /\ UNCHANGED <<fp, NumSamp>>
    /\ calls' = calls + 1
    /\ UNCHANGED <<bufVars, pc, ret, held, trigCount, stamp, savedTrig, savedArp, arpCount,
                   loopVars, sweepVars, busVars, stop, thr, gen>>

\* (*OgdarFPGA).SelectTrig: one store to TrigSource.
Ogdar_SelectTrig ==
    /\ OgdarObj
    /\ calls < MaxCalls
    /\ \E t \in SrcVals :
         IF Faults("Osc")
         THEN /\ cret' = Panic("Ogdar.SelectTrig")
              /\ fp' = Crashed(fp)
              /\ UNCHANGED <<regs, Status, NumSamp>>
         ELSE /\ cret' = [NoCall EXCEPT !.op = "Ogdar.SelectTrig", !.v = t, !.ok = TRUE]
              /\ regs' = [regs EXCEPT !["TrigSource"] = t]
              /\ UNCHANGED <<fp, Status, NumSamp>>
    /\ calls' = calls + 1
    /\ UNCHANGED <<bufVars, pc, ret, held, trigCount, stamp, savedTrig, savedArp, arpCount,
                   loopVars, sweepVars, busVars, stop, thr, gen>>

\* (*OgdarFPGA).SetDecim: the rate is stored unchecked.
Ogdar_SetDecim ==
    /\ OgdarObj
    /\ calls < MaxCalls
    /\ \E decim \in SetVals \cup {4, 8} :
         IF Faults("Osc")
         THEN /\ cret' = Panic("Ogdar.SetDecim")
              /\ fp' = Crashed(fp)
              /\ UNCHANGED <<regs, Status, NumSamp>>
         ELSE /\ cret' = [NoCall EXCEPT !.op = "Ogdar.SetDecim", !.v = decim, !.ok = TRUE]
              /\ regs' = [regs EXCEPT !["DecRate"] = decim]
              /\ UNCHANGED <<fp, Status, NumSamp>>
    /\ calls' = calls + 1
    /\ UNCHANGED <<bufVars, pc, ret, held, trigCount, stamp, savedTrig, savedArp, arpCount,
                   loopVars, sweepVars, busVars, stop, thr, gen>>

\* (*OgdarFPGA).SetNumSamp: a count out of range is ignored.
Ogdar_SetNumSamp ==
    /\ OgdarObj
    /\ calls < MaxCalls
    /\ \E n \in SetVals :
         IF ~(n <= SAMPLES_PER_BUFF /\ n > 0)
         THEN /\ cret' = [NoCall EXCEPT !.op = "Ogdar.SetNumSamp", !.v = n, !.ok = TRUE]
              /\ UNCHANGED <<fp, regs, Status, NumSamp>>
         ELSE IF Faults("Osc")
         THEN /\ cret' = Panic("Ogdar.SetNumSamp")
              /\ fp' = Crashed(fp)
              /\ UNCHANGED <<regs, Status, NumSamp>>
         ELSE /\ cret' = [NoCall EXCEPT !.op = "Ogdar.SetNumSamp", !.v = n, !.ok = TRUE]
              /\ NumSamp' = n
              /\ UNCHANGED <<fp, regs, Status>>
    /\ calls' = calls + 1
    /\ UNCHANGED <<bufVars, pc, ret, held, trigCount, stamp, savedTrig, savedArp, arpCount,
                   loopVars, sweepVars, busVars, stop, thr, gen>>

\* (*OgdarFPGA).HasTriggered: (TrigSource & OSC_FPGA_TRIG_SRC_MASK) == 0.
Ogdar_HasTriggered ==
    /\ OgdarObj
    /\ calls < MaxCalls
    /\ IF Faults("Osc")
       THEN /\ cret' = Panic("Ogdar.HasTriggered")
            /\ fp' = Crashed(fp)
       ELSE /\ cret' = [NoCall EXCEPT !.op = "Ogdar.HasTriggered", !.val = regs["TrigSource"],
                                      !.ok = (LowBits(regs["TrigSource"], OSC_FPGA_TRIG_SRC_MASK) = 0)]
            /\ fp' = fp
    /\ calls' = calls + 1
    /\ UNCHANGED <<bufVars, pc, ret, held, trigCount, stamp, fpgaVars, loopVars, sweepVars,
                   busVars, regs, stop, thr, gen>>

(***************************************************************************)
(* The typed control functions of the newest revision before Init(): Regs  *)
(* is a package variable that is nil until Init() has mapped the block.    *)
(***************************************************************************)
TypedOps == {"Arm", "Reset", "SelectTrig", "SetDecim", "SetNumSamp", "HasFired",
             "setDefaultConfig"}

\* A typed control function called before Init(): SetDecim and SetNumSamp
\* return false for an argument out of range; every other call loads or
\* stores through the nil Regs.
CallTypedBeforeInit ==
    /\ fp.life = "none"
    /\ calls < MaxCalls
    /\ \E op \in TypedOps, v \in SetVals :
         IF (op = "SetDecim" /\ ~SetDecim(v)) \/ (op = "SetNumSamp" /\ ~SetNumSamp(v))
         THEN /\ cret' = [NoCall EXCEPT !.op = op, !.v = v, !.ok = FALSE]
              /\ fp' = fp
         ELSE /\ cret' = Panic(op)
              /\ fp' = Crashed(fp)
    /\ calls' = calls + 1
    /\ UNCHANGED <<bufVars, pc, ret, held, trigCount, stamp, fpgaVars, loopVars, sweepVars,
                   busVars, regs, stop, thr, gen>>

(***************************************************************************)
(* setDefaultConfig: the built-in values of the digitizing registers.  A   *)
(* register word at or above 2^31 is held in the model as the negative     *)
(* integer with the same 32 bits.                                          *)
(***************************************************************************)
\* The halves of the 32-bit two's-complement word of x.
Lo16(x) == x % 65536

Hi16(x) == (x \div 65536) % 65536

\* The 32-bit word with halves hi and lo.
Word32(hi, lo) == IF hi < 32768 THEN hi * 65536 + lo ELSE (hi - 65536) * 65536 + lo

\* A conversion to a 16-bit unsigned word.
unsignShort(x) == Lo16(x)

\* unsign(x): uint32(x), the unsigned word with the bits of the int32 x.
unsign(x) == Word32(Hi16(x), Lo16(x))

\* int32(w): the word w read as a signed value.
AsSigned(w) ==
    IF Hi16(w) >= 32768 THEN (Hi16(w) - 65536) * 65536 + Lo16(w)
    ELSE Hi16(w) * 65536 + Lo16(w)

\* The registers setDefaultConfig assigns, with the words it assigns.
DefaultWord(x) ==
    CASE x = "DecRate" -> 1
      [] x = "NumSamp" -> 4000
      [] x = "Options" -> 7
      [] x = "TrigSource" -> 2
      [] x = "TrigThreshExcite" -> unsign(-6550)
      [] x = "TrigThreshRelax" -> unsign(-8000)
      [] x = "TrigLatency" -> 12500
      [] x = "TrigDelay" -> 30
      [] x = "ACPThreshExcite" -> unsign(-1638)
      [] x = "ACPThreshRelax" -> 1228
      [] x = "ACPLatency" -> 500000
      [] x = "ARPThreshExcite" -> unsign(-1638)
      [] x = "ARPThreshRelax" -> 1228
      [] x = "ARPLatency" -> 125000000

DefaultKeys ==
    {"DecRate", "NumSamp", "Options", "TrigSource", "TrigThreshExcite", "TrigThreshRelax",
     "TrigLatency", "TrigDelay", "ACPThreshExcite", "ACPThreshRelax", "ACPLatency",
     "ARPThreshExcite", "ARPThreshRelax", "ARPLatency"}

\* setDefaultConfig(): one store to each of the registers above; the
\* description of the radar it also fills in is not part of the model.
CallSetDefaultConfig ==
    /\ Mapped
    /\ calls < MaxCalls
    /\ cret' = [NoCall EXCEPT !.op = "setDefaultConfig", !.ok = TRUE]
    /\ regs' = [x \in DOMAIN regs |->
                  IF x \in DefaultKeys /\ x \in Writable THEN DefaultWord(x) ELSE regs[x]]
    /\ NumSamp' = DefaultWord("NumSamp")
    /\ calls' = calls + 1
    /\ UNCHANGED <<bufVars, pc, ret, held, trigCount, stamp, Status, savedTrig, savedArp,
                   arpCount, loopVars, sweepVars, busVars, fp, stop, thr, gen>>

(***************************************************************************)
(* The generic accessors before Init(): RegMap, RegKeys and RegIndex are   *)
(* package variables that Init() fills in after the mappings; until then   *)
(* they are nil and have length 0.                                         *)
(***************************************************************************)
BASE_SIZE == 4096

\* Tables that are complete from the start of the program.
TableLenStatic(m) == NumRegs

\* len(RegMap) for the object m.
TableLen(m) == IF m.rev = "Init" /\ m.life = "up" THEN NumRegs ELSE 0

\* The keys of RegMap for the object m.
TableKeys(m) == IF TableLen(m) = 0 THEN {} ELSE LaneNames

\* The range test and the lookup of the generic accessors on the object m.
IndexIn(m, i) == ~(i < 0 \/ i >= TableLen(m))

NameIn(m, x) == x \in TableKeys(m)

\* The generic accessors.
GenericOps == {"GetRegByIndex", "GetRegByName", "SetRegByIndex", "SetRegByName"}

\* Names and indexes offered before Init().
BeforeNames == {"Command", "Clocks_hi", "NoSuchReg"}

BeforeIndexes == {-1, 0, NumRegs - 1}

\* GetRegByIndex, GetRegByName, SetRegByIndex or SetRegByName called before
\* Init().  An access that passed the tests would go through the nil
\* pointer RegsU32 and fault.
CallBeforeInit ==
    /\ fp.life = "none"
    /\ calls < MaxCalls
    /\ \E op \in GenericOps, i \in BeforeIndexes, x \in BeforeNames, v \in RegVals :
         LET byName == op \in {"GetRegByName", "SetRegByName"}
             isSet == op \in {"SetRegByIndex", "SetRegByName"}
             found == IF byName THEN NameIn(fp, x) ELSE TRUE
             j == IF byName THEN (IF found THEN RegMap(x) ELSE 0) ELSE i
             ok == found /\ IndexIn(fp, j)
         IN  cret' = [NoCall EXCEPT !.op = IF ok THEN "fault" ELSE op,
                                    !.name = IF byName THEN x ELSE "",
                                    !.i = IF byName THEN 0 ELSE i,
                                    !.v = IF isSet THEN v ELSE 0,
                                    !.ok = FALSE]
    /\ calls' = calls + 1
    /\ UNCHANGED <<bufVars, pc, ret, held, trigCount, stamp, fpgaVars, loopVars, sweepVars,
                   busVars, regs>>
    /\ UNCHANGED <<fp, stop, thr, gen>>

\* The digitizer runs beside the calls: a trigger starts a capture and the
\* capture ends, so that Status takes each of its values.
CtlNext ==
    \/ CallNewFPGA
    \/ CallNewOgdarFPGA
    \/ CallInit
    \/ CallClose
    \/ CallSetDecim
    \/ CallSetNumSamp
    \/ CallHasFired
    \/ CallGetRegByName
    \/ CallGetRegByIndex
    \/ CallSetRegByIndex
    \/ CallSetRegByName
    \/ CallArm
    \/ CallReset
    \/ CallLoadConfig
    \/ CallSetDefaultConfig
    \/ CallBeforeInit
    \/ CallSelectTrig
    \/ FPGA_Arm
    \/ FPGA_SelectTrig
    \/ FPGA_SetDecim
    \/ FPGA_SetNumSamp
    \/ FPGA_HasTriggered
    \/ OgdarFPGA_Arm
    \/ OgdarFPGA_SelectTrig
    \/ OgdarFPGA_SetDecim
    \/ OgdarFPGA_SetNumSamp
    \/ OgdarFPGA_HasTriggered
    \/ CallOpen
    \/ Ogdar_Arm
    \/ Ogdar_SelectTrig
    \/ Ogdar_SetDecim
    \/ Ogdar_SetNumSamp
    \/ Ogdar_HasTriggered
    \/ CallTypedBeforeInit
    \/ FpgaTrigger
    \/ FpgaDone

SpecCtl == Init /\ [][CtlNext]_vars

(***************************************************************************)
(* The acquisition loop, one action per step, run on the package-level     *)
(* functions of package fpga after Init() has mapped the register block.   *)
(* pc = "idle" is the top of the loop.                                     *)
(***************************************************************************)
\* The program when the loop starts: Init() has returned.
AcqInit ==
    /\ Start
    /\ fp = FpgaInit(0)
    /\ gen = NoGen

\* The sample count after SetNumSamp was called with each request of q in
\* order, from the count n.
RECURSIVE Applied(_, _)

Applied(q, n) ==
    IF q = << >> THEN n
    ELSE Applied(Tail(q), IF SetNumSamp(Head(q)) THEN Head(q) ELSE n)

\* Step 1: drain the parameter queue, applying each request in order.
Drain ==
    /\ pc = "idle"
    /\ Mapped
    /\ NumSamp' = Applied(queue, NumSamp)
    /\ queue' = << >>
    /\ pc' = "arm"
    /\ UNCHANGED <<bufVars, ret, held, trigCount, stamp, Status, savedTrig, savedArp,
                   arpCount, arms, dropped, timeouts, loc, sweepVars, busVars>>
    /\ UNCHANGED ctlVars
    /\ UNCHANGED <<fp, stop, thr, gen>>

\* Step 2: the loop calls Arm().
ArmStep ==
    /\ pc = "arm"
    /\ Mapped
    /\ arms < MaxArms
    /\ arms' = arms + 1
    /\ Arm
    /\ pc' = "wait"
    /\ UNCHANGED <<bufVars, ret, held, stamp, queue, dropped, timeouts, loc, sweepVars,
                   busVars, cret, calls>>
    /\ UNCHANGED <<fp, stop, thr, gen>>

\* Step 3: the poll of HasFired() returns true.
Fired ==
    /\ pc = "wait"
    /\ Mapped
    /\ HasFired
    /\ pc' = "fired"
    /\ UNCHANGED <<bufVars, ret, held, trigCount, stamp, fpgaVars, loopVars, sweepVars,
                   busVars>>
    /\ UNCHANGED ctlVars
    /\ UNCHANGED <<fp, stop, thr, gen>>

\* Step 3, timed out: HasFired() stayed false; count it and arm again.
Timeout ==
    /\ pc = "wait"
    /\ Mapped
    /\ ~HasFired
    /\ timeouts' = timeouts + 1
    /\ pc' = "arm"
    /\ UNCHANGED <<bufVars, ret, held, trigCount, stamp, fpgaVars, queue, arms, dropped,
                   loc, sweepVars, busVars>>
    /\ UNCHANGED ctlVars
    /\ UNCHANGED <<fp, stop, thr, gen>>

\* Steps 4 and 5 without the count of dropped pulses.
AllocUncounted ==
    /\ pc = "fired"
    /\ Mapped
    /\ LET r == Next(NumSamp, savedTrig)
       IN  /\ SampBuff' = r.SampBuff
           /\ stamp' = Stamped(stamp, r.samps, 0, 2, savedTrig)
           /\ iSample' = r.iSample
           /\ nSamples' = r.nSamples
           /\ ScanBuff' = r.ScanBuff
           /\ iScanline' = r.iScanline
           /\ ret' = [op |-> "Next", n |-> NumSamp, trig |-> savedTrig, err |-> r.err,
                      i |-> r.i, s |-> r.samps]
           /\ pc' = IF r.err THEN "idle" ELSE "alloc"
    /\ loc' = [trig |-> savedTrig, arp |-> savedArp, closed |-> FALSE]
    /\ UNCHANGED <<nScanlines, held, trigCount, fpgaVars, queue, arms, dropped, timeouts,
                   sweepVars, busVars>>
    /\ UNCHANGED ctlVars
    /\ UNCHANGED <<fp, stop, thr, gen>>

\* Steps 4 and 5: read the snapshot and the sample count, call Next; a pulse
\* the ring cannot hold is counted as dropped.
Alloc ==
    /\ pc = "fired"
    /\ Mapped
    /\ LET r == Next(NumSamp, savedTrig)
       IN  /\ SampBuff' = r.SampBuff
           /\ stamp' = Stamped(stamp, r.samps, 0, 2, savedTrig)
           /\ iSample' = r.iSample
           /\ nSamples' = r.nSamples
           /\ ScanBuff' = r.ScanBuff
           /\ iScanline' = r.iScanline
           /\ ret' = [op |-> "Next", n |-> NumSamp, trig |-> savedTrig, err |-> r.err,
                      i |-> r.i, s |-> r.samps]
           /\ dropped' = IF r.err THEN dropped + 1 ELSE dropped
           /\ pc' = IF r.err THEN "idle" ELSE "alloc"
    /\ loc' = [trig |-> savedTrig, arp |-> savedArp, closed |-> FALSE]
    /\ UNCHANGED <<nScanlines, held, trigCount, fpgaVars, queue, arms, timeouts, sweepVars,
                   busVars>>
    /\ UNCHANGED ctlVars
    /\ UNCHANGED <<fp, stop, thr, gen>>

\* Step 7: write the scanline's metadata from the snapshot.
AcqWriteMeta ==
    /\ pc = "filled"
    /\ ScanBuff' = [ScanBuff EXCEPT ![ret.i].TrigCount = loc.trig,
                                    ![ret.i].ARPCount = loc.arp]
    /\ pc' = "sweep"
    /\ UNCHANGED <<SampBuff, iSample, nSamples, iScanline, nScanlines, ret, held, trigCount,
                   stamp, fpgaVars, loopVars, sweepVars, busVars>>
    /\ UNCHANGED ctlVars
    /\ UNCHANGED <<fp, stop, thr, gen>>

\* Step 8: update the sweep accumulator.
UpdateSweep ==
    /\ pc = "sweep"
    /\ LET a == Accumulate(sweep, loc.arp, ScanlineHandle(ret.i, loc.trig), loc.trig)
       IN  /\ sweep' = a.sweep
           /\ lastClosed' = IF a.closed THEN sweep ELSE lastClosed
           /\ loc' = [loc EXCEPT !.closed = a.closed]
    /\ pc' = "notify"
    /\ UNCHANGED <<bufVars, ret, held, trigCount, stamp, fpgaVars, queue, arms, dropped,
                   timeouts, busVars>>
    /\ UNCHANGED ctlVars
    /\ UNCHANGED <<fp, stop, thr, gen>>

\* The notification, if any, that step 9 posts to subscriber c.
Notice(c) ==
    IF Kind(c) = "pulse" THEN PulseItem(ret.i, loc.trig)
    ELSE IF loc.closed THEN SweepItem(lastClosed) ELSE NoItem

\* A step 9 that waits until the mailboxes it posts to are empty.
NotifyWhenEmpty ==
    /\ pc = "notify"
    /\ \A c \in Clients : Notice(c).kind # "none" => mailbox[c].kind = "none"
    /\ mailbox' = [c \in Clients |->
                     IF Notice(c).kind = "none" THEN mailbox[c]
                     ELSE Post(mailbox[c], Notice(c))]
    /\ drops' = [c \in Clients |->
                     IF Notice(c).kind = "none" THEN drops[c]
                     ELSE DropsAfter(mailbox[c], drops[c])]
    /\ pc' = "idle"
    /\ UNCHANGED <<bufVars, ret, held, trigCount, stamp, fpgaVars, loopVars, sweepVars>>
    /\ UNCHANGED ctlVars
    /\ UNCHANGED <<fp, stop, thr, gen>>

\* Step 9: post the notifications, whatever the mailboxes hold, then loop.
Notify ==
    /\ pc = "notify"
    /\ mailbox' = [c \in Clients |->
                     IF Notice(c).kind = "none" THEN mailbox[c]
                     ELSE Post(mailbox[c], Notice(c))]
    /\ drops' = [c \in Clients |->
                     IF Notice(c).kind = "none" THEN drops[c]
                     ELSE DropsAfter(mailbox[c], drops[c])]
    /\ pc' = "idle"
    /\ UNCHANGED <<bufVars, ret, held, trigCount, stamp, fpgaVars, loopVars, sweepVars>>
    /\ UNCHANGED ctlVars
    /\ UNCHANGED <<fp, stop, thr, gen>>

AcqNext ==
    \/ Drain
    \/ ArmStep
    \/ Fired
    \/ Timeout
    \/ Alloc
    \/ Fill
    \/ AcqWriteMeta
    \/ UpdateSweep
    \/ Notify
    \/ FpgaTrigger
    \/ FpgaDone
    \/ ClientRequest
    \/ ClientTake

SpecAcq == AcqInit /\ [][AcqNext]_vars

\* The loop's steps are taken when enabled: the acquisition thread runs.
SpecAcqFair == SpecAcq /\ WF_vars(Notify) /\ WF_vars(Drain)

(***************************************************************************)
(* Cancellation.  The shutdown signal may be raised at any time.  The loop *)
(* tests it between pulses, before it drains the queue and before it arms: *)
(* a capture that is under way is finished first.  On the signal the loop  *)
(* posts the sentinel to every subscriber and returns; a mailbox holding   *)
(* the sentinel is closed, and stays so.                                   *)
(***************************************************************************)
SentinelItem == [kind |-> "sentinel", index |-> 0, key |-> 0, trig |-> 0]

Signal ==
    /\ ~stop
    /\ pc # "done"
    /\ stop' = TRUE
    /\ UNCHANGED <<bufVars, pc, ret, held, trigCount, stamp, fpgaVars, loopVars, sweepVars,
                   busVars, ctlVars, fp, thr, gen>>

\* A loop that returns on the signal without the sentinel.
ShutdownSilent ==
    /\ stop
    /\ pc \in {"idle", "arm"}
    /\ pc' = "done"
    /\ UNCHANGED <<bufVars, ret, held, trigCount, stamp, fpgaVars, loopVars, sweepVars,
                   busVars, ctlVars, fp, stop, thr, gen>>

Shutdown ==
    /\ stop
    /\ pc \in {"idle", "arm"}
    /\ mailbox' = [c \in Clients |-> Post(mailbox[c], SentinelItem)]
    /\ drops' = [c \in Clients |-> DropsAfter(mailbox[c], drops[c])]
    /\ pc' = "done"
    /\ UNCHANGED <<bufVars, ret, held, trigCount, stamp, fpgaVars, loopVars, sweepVars,
                   ctlVars, fp, stop, thr, gen>>

\* Steps 1 and 2 of a loop that has not been told to stop.
DrainUnlessStopped == ~stop /\ Drain

ArmUnlessStopped == ~stop /\ ArmStep

\* A subscriber takes a notification; the sentinel stays in the mailbox.
TakeNotification ==
    /\ ClientTake
    /\ \A c \in Clients : mailbox[c].kind = "sentinel" => mailbox'[c] = mailbox[c]

\* The steps of the acquisition thread from the wait to the return.
LoopStep ==
    \/ Fired
    \/ Timeout
    \/ Alloc
    \/ Fill
    \/ AcqWriteMeta
    \/ UpdateSweep
    \/ Notify
    \/ Shutdown

StopNext ==
    \/ DrainUnlessStopped
    \/ ArmUnlessStopped
    \/ LoopStep
    \/ FpgaTrigger
    \/ FpgaDone
    \/ TakeNotification
    \/ Signal

SpecStop == AcqInit /\ [][StopNext]_vars

\* The acquisition thread runs: a step of the loop that can be taken is taken.
SpecStopFair == SpecStop /\ WF_vars(LoopStep)


(***************************************************************************)
(* C1: every non-empty slice returned by NextSliceFor for a request of     *)
(* length n (directly, or for the n+2 samples of Next) is one index range  *)
(* [i, i+n) with 0 <= i and i+n <= len(SampBuff); so is every view kept in *)
(* a scanline slot.                                                        *)
(***************************************************************************)
C1_SliceContiguous ==
    /\ ~ret.s.nil =>
         /\ ret.s.len = (IF ret.op = "Next" THEN ret.n + 2 ELSE ret.n)
         /\ 0 <= ret.s.start
         /\ ret.s.start + ret.s.len <= SampBuffLen
    /\ \A j \in 0 .. ScanBuffLen - 1 :
         ~ScanBuff[j].Samples.nil =>
            /\ 0 <= ScanBuff[j].Samples.start
            /\ ScanBuff[j].Samples.start + ScanBuff[j].Samples.len <= SampBuffLen

\* One sample was handed out, then a request for the whole ring wrapped to 0.
C1_Witness ==
    /\ ret.op = "NextSliceFor"
    /\ ~ret.s.nil
    /\ ret.s.start = 0
    /\ ret.s.len = SampBuffLen
    /\ nSamples = SampBuffLen + 1

(***************************************************************************)
(* C2: when Next(n, trig) has returned index i without error, and until    *)
(* the producer publishes the scanline, slot i holds a view of length n+2  *)
(* whose first two samples are NOT_A_SAMPLE and the low 16 bits of trig.   *)
(***************************************************************************)
C2_FingerprintPresent ==
    pc \in {"alloc", "filled"} =>
        LET v == ScanBuff[ret.i].Samples
        IN  /\ ~v.nil
            /\ v = ret.s
            /\ v.len = ret.n + 2
            /\ SampBuff[v.start] = 0
            /\ SampBuff[v.start + 1] = ret.trig % 65536

\* A trigger count above 16 bits, on storage that was used before.
C2_Witness ==
    /\ pc = "alloc"
    /\ ret.trig > 65536
    /\ ret.n = MaxScanlineSamples
    /\ nSamples > SampBuffLen
    /\ SampBuff[ret.s.start + 1] = ret.trig - 65536

(***************************************************************************)
(* A step in which a later pulse recycles the storage of the scanline the  *)
(* reader holds: Next returns a view that starts where the held view       *)
(* starts, and writes that pulse's fingerprint there.                      *)
(***************************************************************************)
RecycleHeld ==
    /\ held.taken
    /\ held' = held
    /\ pc = "idle"
    /\ pc' = "alloc"
    /\ ret'.s.start = held.sl.Samples.start

(***************************************************************************)
(* C4 as stated: whenever the sample storage of a previously obtained      *)
(* scanline is recycled from its start by a later pulse, Valid() on the    *)
(* held scanline is false afterwards.                                      *)
(***************************************************************************)
C4_RecycledIsInvalid ==
    [][RecycleHeld => ReturnsFalse(Valid(held.sl))']_vars

(***************************************************************************)
(* C4 amended: the recycling is detected when the later pulse's trigger    *)
(* count differs from the held scanline's in its low 16 bits.              *)
(***************************************************************************)
C4_RecycledIsInvalidUnlessAliased ==
    [][(RecycleHeld /\ ret'.trig % 65536 # held.sl.TrigCount % 65536)
          => ReturnsFalse(Valid(held.sl))']_vars

\* The held scanline's storage was taken by a pulse with other low bits,
\* and Valid() is false.
C4_Witness ==
    /\ held.taken
    /\ pc = "alloc"
    /\ ret.s.start = held.sl.Samples.start
    /\ ret.trig % 65536 # held.sl.TrigCount % 65536
    /\ ret.i # held.index
    /\ ReturnsFalse(Valid(held.sl))

(***************************************************************************)
(* C5: once the slot at h.index has been overwritten by a pulse whose low  *)
(* 16 trigger-count bits differ from h's, is_valid(h) is false; this holds *)
(* from the return of Next for that pulse (the slot's metadata are still   *)
(* the old ones) and after its metadata are written.                       *)
(***************************************************************************)
C5_OverwrittenHandleInvalid ==
    (/\ held.taken
     /\ \/ /\ pc \in {"alloc", "filled"}
           /\ ret.i = held.index
           /\ ret.trig % 65536 # HeldHandle.low16
        \/ /\ Published(held.index)
           /\ ScanBuff[held.index].TrigCount % 65536 # HeldHandle.low16)
    => ~IsValid(HeldHandle)

\* Next has just reused the handle's slot for a pulse with other low bits,
\* on the very storage the handle's scanline had.
C5_Witness ==
    /\ held.taken
    /\ pc = "alloc"
    /\ ret.i = held.index
    /\ ret.s.start = held.sl.Samples.start
    /\ ret.trig % 65536 # HeldHandle.low16
    /\ ScanBuff[held.index].TrigCount = held.sl.TrigCount
    /\ ~IsValid(HeldHandle)

(***************************************************************************)
(* C6: a parameter-change request is applied to the control registers      *)
(* (step 1 of the loop, with a non-empty queue) only when the digitizer is *)
(* not between arm and fired: it is neither armed nor capturing.           *)
(***************************************************************************)
C6_NoWriteMidCapture ==
    [][(pc = "idle" /\ pc' = "arm" /\ queue # << >>) => ~MidCapture]_vars

C8_PostCompletes ==
    /\ [](pc = "notify" => ENABLED Notify)
    /\ [][(pc = "notify" /\ pc' # "notify") =>
             /\ pc' = "idle"
             /\ \A c \in Clients :
                  Notice(c).kind # "none" => mailbox'[c] = Notice(c)]_vars
    /\ (pc = "notify") ~> (pc = "arm")

\* Both subscribers left a notification unconsumed, a post replaced each,
\* and the loop is at the next arm.
C8_Witness ==
    /\ pc = "arm"
    /\ \A c \in Clients : drops[c] >= 1 /\ mailbox[c].kind # "none"
    /\ arms = MaxArms

(***************************************************************************)
(* C9: a post to a subscriber whose mailbox holds an unconsumed            *)
(* notification leaves the newer notification in the mailbox and adds      *)
(* exactly one to that subscriber's drop counter; a post to an empty       *)
(* mailbox, and every other step, leaves the counter as it is.             *)
(***************************************************************************)
C9_Coalesce ==
    [][\A c \in Clients :
         IF pc = "notify" /\ pc' = "idle" /\ Notice(c).kind # "none"
         THEN /\ mailbox'[c] = Notice(c)
              /\ drops'[c] = IF mailbox[c].kind # "none" THEN drops[c] + 1 ELSE drops[c]
         ELSE drops'[c] = drops[c]]_vars

\* A second closed sweep replaced the first in the sweep subscriber's
\* mailbox, and a third pulse replaced the second in the pulse subscriber's.
C9_Witness ==
    /\ mailbox[2].kind = "sweep"
    /\ mailbox[2].key = ArpStart + 1
    /\ drops[2] = 1
    /\ mailbox[1].kind = "pulse"
    /\ drops[1] = 2

\* The handle a pulse notification carries.
ItemHandle(m) == [index |-> m.index, low16 |-> m.key]

\* Every sample entry of view s, fingerprint included, was written for pulse trig.
WrittenFor(s, trig) ==
    \A x \in 0 .. SampBuffLen - 1 :
        (x >= s.start /\ x < s.start + s.len) => stamp[x] = trig

\* No sample entry of view s is older than pulse trig.
NotOlderThan(s, trig) ==
    \A x \in 0 .. SampBuffLen - 1 :
        (x >= s.start /\ x < s.start + s.len) => stamp[x] >= trig

(***************************************************************************)
(* C10: the producer's writes are ordered.  When the metadata are about to *)
(* be written, all sample entries of the pulse are in place; when the      *)
(* notification is about to be posted, so are the metadata.  A subscriber  *)
(* holding a pulse notification never finds metadata of an earlier pulse   *)
(* in the slot, and when the handle passes the fingerprint check, no       *)
(* sample entry of an earlier pulse either.                                *)
(***************************************************************************)
C10_WritesOrdered ==
    /\ pc \in {"filled", "sweep", "notify"} =>
          WrittenFor(ScanBuff[ret.i].Samples, ret.trig)
    /\ pc \in {"sweep", "notify"} =>
          /\ ScanBuff[ret.i].TrigCount = loc.trig
          /\ ScanBuff[ret.i].ARPCount = loc.arp
    /\ \A c \in Clients :
          mailbox[c].kind = "pulse" =>
              /\ ScanBuff[mailbox[c].index].TrigCount >= mailbox[c].trig
              /\ IsValid(ItemHandle(mailbox[c])) =>
                    NotOlderThan(ScanBuff[mailbox[c].index].Samples, mailbox[c].trig)

\* The second pulse's notification is in the mailbox and its scanline is
\* intact in storage that the first pulse had used.
C10_Witness ==
    /\ mailbox[1].kind = "pulse"
    /\ drops[1] = 1
    /\ IsValid(ItemHandle(mailbox[1]))
    /\ ScanBuff[mailbox[1].index].Samples.start = ScanBuff[0].Samples.start
    /\ mailbox[1].index = 1
    /\ pc = "wait"

(***************************************************************************)
(* C11: SetDecim(rate) returns true and stores rate in DecRate iff         *)
(* 1 <= rate <= 65536; for every other rate it returns false and leaves    *)
(* DecRate and every other register unchanged.  Stated of SetDecim in      *)
(* every revision of the package where it has a result: the function, the  *)
(* method of FPGA and the method of OgdarFPGA in src/fpga/fpga.go.         *)
(***************************************************************************)
SetDecimOps == {"SetDecim", "FPGA.SetDecim", "OgdarFPGA.SetDecim"}

C11_SetDecimRange ==
    [][(cret'.op \in SetDecimOps /\ calls' = calls + 1) =>
          /\ cret'.ok <=> (1 <= cret'.v /\ cret'.v <= 65536)
          /\ cret'.ok => Block' = [Block EXCEPT !["DecRate"] = cret'.v]
          /\ ~cret'.ok => Block' = Block]_vars

\* The same of the package-level function of the newest revision alone.
SetDecimRangeNewest ==
    [][(cret'.op = "SetDecim" /\ calls' = calls + 1) =>
          /\ cret'.ok <=> (1 <= cret'.v /\ cret'.v <= 65536)
          /\ cret'.ok => Block' = [Block EXCEPT !["DecRate"] = cret'.v]
          /\ ~cret'.ok => Block' = Block]_vars

C11_Witness ==
    /\ cret.op = "SetDecim"
    /\ cret.ok
    /\ cret.v = 65536
    /\ LaneGet("DecRate") = 65536

(***************************************************************************)
(* C12: SetNumSamp(n) returns true and stores n in NumSamp iff             *)
(* 2 <= n <= 16384 and n is even; for every other n, odd n and n = 1       *)
(* included, it returns false and leaves NumSamp unchanged.                *)
(***************************************************************************)
C12_SetNumSampRange ==
    [][(cret'.op = "SetNumSamp" /\ calls' = calls + 1) =>
          /\ cret'.ok <=> (2 <= cret'.v /\ cret'.v <= 16384 /\ cret'.v % 2 = 0)
          /\ cret'.ok => NumSamp' = cret'.v
          /\ ~cret'.ok => NumSamp' = NumSamp]_vars

(***************************************************************************)
(* C13: HasFired() returns true iff the fired bit (STATUS_FIRED) of the    *)
(* Status register is set; it returns false while the digitizer is armed   *)
(* or capturing and has not yet fired.                                     *)
(***************************************************************************)
C13_HasFiredIffFiredBit ==
    cret.op = "HasFired" => (cret.ok <=> Bit(cret.val, STATUS_FIRED) = 1)

(***************************************************************************)
(* C14: generic register access by an unknown name or by an index outside  *)
(* [0, NumRegs()) fails: the getters return (0, false), the setters return *)
(* false, and the failing set modifies no register of the block.           *)
(***************************************************************************)
ByName == {"GetRegByName", "SetRegByName"}

ByIndex == {"GetRegByIndex", "SetRegByIndex"}

C14_UnknownRegisterFails ==
    [][(calls' = calls + 1 /\
        \/ cret'.op \in ByName /\ cret'.name \notin LaneNames
        \/ cret'.op \in ByIndex /\ (cret'.i < 0 \/ cret'.i >= NumRegs)) =>
          /\ ~cret'.ok
          /\ cret'.val = 0
          /\ Block' = Block]_vars

C14_Witness ==
    /\ cret.op = "SetRegByName"
    /\ cret.name = "TrigClock"
    /\ ~cret.ok
    /\ calls = 2

(***************************************************************************)
(* C15: round trip.  For every register name of mode rw and every word v,  *)
(* SetRegByName(name, v) returning true followed by GetRegByName(name)     *)
(* returns (v, true), and the set changes no lane other than the named     *)
(* one.                                                                    *)
(***************************************************************************)
C15_SetGetRoundTrip ==
    [][/\ (cret'.op = "SetRegByName" /\ calls' = calls + 1 /\ cret'.name \in Writable) =>
            /\ cret'.ok
            /\ Block' = [Block EXCEPT ![cret'.name] = cret'.v]
       /\ (cret.op = "SetRegByName" /\ cret.name \in Writable /\ cret.ok /\
           cret'.op = "GetRegByName" /\ calls' = calls + 1 /\ cret'.name = cret.name) =>
            /\ cret'.ok
            /\ cret'.val = cret.v]_vars

C15_Witness ==
    /\ cret.op = "GetRegByName"
    /\ cret.name = "ARPLatency"
    /\ cret.ok
    /\ cret.val = 2147483647

(***************************************************************************)
(* C16: schema round trip.  For every lane of the register schema the byte *)
(* offset the generator emits into the memory map (OFFSET_<name>, and      *)
(* OFFSET_<name>_LO / _HI = o / o+4 for a 64-bit register) equals the byte *)
(* offset RegIndex holds for the same lane, and both tables list the lanes *)
(* in the same order: line j of generated_mmap.v is the lane of entry j-1  *)
(* of RegKeys and has the offset of entry j-1 of RegIndex.                 *)
(***************************************************************************)
\* The generator's name g and the accessor table's name r are one lane: the
\* same register and half, whatever the spelling of prefix and suffix.
SameLane(g, r) ==
    \E m \in DOMAIN Regs : \E k \in DOMAIN Regs[m].type :
        LET x == Regs[m].type[k].name
            pg == Regs[m].reg_prefix
            pr == IF pg = "" THEN "" ELSE "Saved"
        IN  \/ g = pg \o x /\ r = pr \o x
            \/ g = pg \o x \o "_LO" /\ r = pr \o x \o "_lo"
            \/ g = pg \o x \o "_HI" /\ r = pr \o x \o "_hi"

C16_SchemaRoundTrip ==
    /\ Len(gen.out[1]) <= NumRegs
    /\ \A j \in DOMAIN gen.out[1] :
         /\ SameLane(gen.out[1][j].name, RegKeys[j - 1])
         /\ Literal(gen.out[1][j].hex) = RegIndex[j - 1]
    /\ gen.file > 1 => Len(gen.out[1]) = NumRegs

(***************************************************************************)
(* C17: if any step of the initialisation fails (the open of /dev/mem, the *)
(* mapping of the register block or of any of the four BRAM windows),      *)
(* every mapping made by the earlier steps is unmapped and the file is     *)
(* closed before failure is reported: no mapping and no open descriptor    *)
(* survives a failed initialisation.                                       *)
(***************************************************************************)
C17_FailedInitUnwinds ==
    fp.life \in {"failed", "panicked"} => (fp.live = {} /\ ~fp.memfile)

(***************************************************************************)
(* C18: Close unmaps every region the initialisation mapped (the register  *)
(* block and the four BRAM windows) in the reverse of the mapping order,   *)
(* then closes the descriptor and sets every typed view to nil; after      *)
(* Close no mapping remains.                                               *)
(***************************************************************************)
Reverse(q) == [i \in 1 .. Len(q) |-> q[Len(q) + 1 - i]]

C18_CloseUnmapsAll ==
    fp.life = "down" =>
        /\ fp.live = {}
        /\ fp.unmaps = Reverse(fp.maps)
        /\ ~fp.memfile
        /\ fp.views = {}

(***************************************************************************)
(* C19: a configuration value that is out of range or cross-field invalid  *)
(* (a decimation rate outside 1..65536, an odd NumSamp, sum decimation     *)
(* with a rate above 4) is rejected at load: after loadConfig the control  *)
(* registers still hold their previous values, never the invalid value.    *)
(***************************************************************************)
RateKeys == {"DecimRate", "DecRate"}

ConfigInvalid(cfg) ==
    \/ \E k \in RateKeys \cap DOMAIN cfg : cfg[k] < 1 \/ cfg[k] > 65536
    \/ "NumSamp" \in DOMAIN cfg /\
         (cfg["NumSamp"] % 2 = 1 \/ cfg["NumSamp"] < 2 \/ cfg["NumSamp"] > 16384)
    \/ "Options" \in DOMAIN cfg /\ Bit(cfg["Options"], 2) = 1 /\
         \E k \in RateKeys \cap DOMAIN cfg : cfg[k] > 4

C19_InvalidConfigRejected ==
    [][(cret'.op = "loadConfig" /\ calls' = calls + 1 /\ ConfigInvalid(cret'.cfg)) =>
          Block' = Block]_vars

(***************************************************************************)
(* C20: a sweep whose scanline range crosses the end of the scanline ring  *)
(* is exposed as two slices, lines the part at the end of the ring and     *)
(* lines2 the part at the beginning; otherwise lines2 is empty.  With a    *)
(* ring of 1000 and 1200 pulses under one ARP the sweep is                 *)
(* lines = ring[200..1000), lines2 = ring[0..200), 1000 scanlines in all,  *)
(* and 200 handles are stale.                                              *)
(***************************************************************************)
RunLen(r) == r.to - r.from

\* The pulse whose scanline slot j of the ring holds after p pulses.
Occupant(j, p) == p - ((p - 1 - j) % S3Capacity)

\* The pulses of the scenario whose handle no longer names their scanline.
StaleHandles(p) == {t \in 1 .. p : Occupant((t - 1) % S3Capacity, p) # t}

C20_SweepWrapExposed ==
    sweep.open =>
        LET e == Expose(sweep, S3Capacity)
            total == RunLen(e.lines) + RunLen(e.lines2)
            p == loc.trig
        IN  /\ total = IF sweep.n < S3Capacity THEN sweep.n ELSE S3Capacity
            /\ RunLen(e.lines2) > 0 => (e.lines.to = S3Capacity /\ e.lines2.from = 0)
            /\ RunLen(e.lines2) = 0 <=> p <= S3Capacity
            /\ \A q \in 0 .. total - 1 :
                 LET j == IF q < RunLen(e.lines) THEN e.lines.from + q
                          ELSE e.lines2.from + (q - RunLen(e.lines))
                 IN  Occupant(j, p) = p - total + 1 + q
            /\ p = S3Pulses =>
                 /\ e.lines = [from |-> 200, to |-> 1000]
                 /\ e.lines2 = [from |-> 0, to |-> 200]
                 /\ total = 1000
                 /\ Cardinality(StaleHandles(p)) = 200

C20_Witness ==
    /\ loc.trig = S3Pulses
    /\ sweep.n = 1200
    /\ Expose(sweep, S3Capacity).lines2 = [from |-> 0, to |-> 200]

(***************************************************************************)
(* C27: a call NextSliceFor(n) with 1 <= n <= len(SampBuff) and the cursor *)
(* at w returns exactly the range [w, w+n) when w+n <= len(SampBuff) and   *)
(* the range [0, n) when w+n > len(SampBuff); afterwards the cursor is the *)
(* end index of the slice returned and nSamples has grown by exactly n.    *)
(***************************************************************************)
C27_SliceAtCursorOrZero ==
    [][(CallNextSliceFor /\ 1 <= ret'.n /\ ret'.n <= SampBuffLen) =>
          /\ ~ret'.s.nil
          /\ ret'.s.len = ret'.n
          /\ iSample + ret'.n <= SampBuffLen => ret'.s.start = iSample
          /\ iSample + ret'.n > SampBuffLen => ret'.s.start = 0
          /\ iSample' = ret'.s.start + ret'.s.len
          /\ nSamples' = nSamples + ret'.n]_vars

\* A request of one sample served at a cursor in the middle of the ring, so
\* that the slice ends exactly at the end of the ring.
C27_Witness ==
    /\ ret.op = "NextSliceFor"
    /\ ret.n = 1
    /\ ret.s.start = SampBuffLen - 1
    /\ iSample = SampBuffLen
    /\ nSamples = SampBuffLen

(***************************************************************************)
(* C28: a call NextSliceFor(n) with n <= 0 or n > len(SampBuff) returns    *)
(* the nil slice and leaves iSample, nSamples and every sample unchanged.  *)
(***************************************************************************)
C28_RejectedRequestChangesNothing ==
    [][(CallNextSliceFor /\ (ret'.n <= 0 \/ ret'.n > SampBuffLen)) =>
          /\ ret'.s.nil
          /\ iSample' = iSample
          /\ nSamples' = nSamples
          /\ SampBuff' = SampBuff]_vars

\* A request for one sample more than the ring holds, made with the cursor
\* off zero and a fingerprint in the samples.
C28_Witness ==
    /\ ret.op = "NextSliceFor"
    /\ ret.n = SampBuffLen + 1
    /\ ret.s.nil
    /\ iSample > 0
    /\ \E x \in 0 .. SampBuffLen - 1 : SampBuff[x] # 0

(***************************************************************************)
(* C29: Next(n, trig) requests n+2 samples and passes the failure on: it   *)
(* returns an error exactly when n+2 <= 0 or n+2 > len(SampBuff), and then *)
(* iScanline, every scanline slot and every sample are unchanged (and the  *)
(* sample cursor and count with them); without error the view has n+2      *)
(* samples.                                                                *)
(***************************************************************************)
C29_NextFailureChangesNothing ==
    [][CallNext =>
          /\ ret'.err <=> (ret'.n + 2 <= 0 \/ ret'.n + 2 > SampBuffLen)
          /\ ret'.err =>
                /\ iScanline' = iScanline
                /\ ScanBuff' = ScanBuff
                /\ SampBuff' = SampBuff
                /\ iSample' = iSample
                /\ nSamples' = nSamples
          /\ ~ret'.err => ret'.s.len = ret'.n + 2]_vars

\* Next failed for a scanline one sample too long for the ring, after a
\* scanline had been stored.
C29_Witness ==
    /\ ret.op = "Next"
    /\ ret.err
    /\ ret.n + 2 = SampBuffLen + 1
    /\ iScanline = 1
    /\ ~ScanBuff[0].Samples.nil

(***************************************************************************)
(* C30: the indices returned by successive successful Next calls are       *)
(* 0, 1, ..., K-1, 0, 1, ... with K = len(ScanBuff).  A successful Next    *)
(* returns the index iScanline mod K, which lies in [0, K), and leaves     *)
(* iScanline at that index plus one; no other step of a run that goes on   *)
(* changes iScanline, which starts at 0 and stays in [0, K].  So each      *)
(* index is the one returned before plus one, modulo K.                    *)
(***************************************************************************)
C30_IndicesInRingOrder ==
    /\ iScanline = 0
    /\ [](iScanline \in 0 .. ScanBuffLen)
    /\ [][/\ (CallNext /\ pc' = "alloc") =>
               /\ ret'.i \in 0 .. ScanBuffLen - 1
               /\ ret'.i = iScanline % ScanBuffLen
               /\ iScanline' = ret'.i + 1
          /\ (~CallNext /\ pc' # "panic") => iScanline' = iScanline
          /\ (CallNext /\ pc' = "idle") => iScanline' = iScanline]_vars

\* The scanline ring has gone round: a Next returned index 0 with iScanline
\* at K before the call, all slots taken.
C30_Witness ==
    /\ pc = "alloc"
    /\ ret.i = 0
    /\ iScanline = 1
    /\ \A j \in 0 .. ScanBuffLen - 1 : ~ScanBuff[j].Samples.nil

(***************************************************************************)
(* C26: the sizing constants evaluate to 6000 scanlines at most per sweep, *)
(* a scanline ring of 5 * 6000 = 30000 slots and a sample ring of          *)
(* 30000 * 4000 = 120000000 samples; a sweep of an antenna that turns at   *)
(* MIN_RPM or faster stays within the maximum.                             *)
(***************************************************************************)
C26_SizingConstants ==
    /\ sweep.n <= MAX_SWEEP_SCANLINES
    /\ MAX_SWEEP_SCANLINES = 6000
    /\ SCANLINE_BUFF_SIZE = 5 * 6000
    /\ SAMPLE_BUFF_SIZE = 30000 * 4000

(***************************************************************************)
(* C21: scenario S2.  The accumulator is fed 450 consecutive scanlines     *)
(* with ARP count 10 and then one with ARP count 11.  No sweep is notified *)
(* during the first 450; the 451st produces exactly one sweep              *)
(* notification, for the closed sweep with n = 450 (its first scanline     *)
(* counted) and ARP = 10, exposed with lines2 empty.                       *)
(***************************************************************************)
SweepClients == {c \in Clients : Kind(c) = "sweep"}

\* Notifications posted so far to subscriber c, whose mailbox nobody empties.
Posted(c) == IF mailbox[c].kind = "none" THEN 0 ELSE drops[c] + 1

C21_OneSweepOf450 ==
    /\ loc.trig <= S2Pulses => \A c \in SweepClients : Posted(c) = 0
    /\ loc.trig = S2Pulses + 1 =>
          /\ loc.closed
          /\ lastClosed.n = 450
          /\ lastClosed.ARP = 10
          /\ \A c \in SweepClients :
                /\ Posted(c) = 1
                /\ mailbox[c] = SweepItem(lastClosed)
          /\ LET e == Expose(lastClosed, SCANLINE_BUFF_SIZE)
             IN  /\ e.lines = [from |-> 0, to |-> 450]
                 /\ e.lines2.from = e.lines2.to

\* The scanline with ARP count 11 has been accumulated.
C21_Witness ==
    /\ loc.trig = S2Pulses + 1
    /\ loc.arp = ArpStart + 1
    /\ sweep.ARP = ArpStart + 1
    /\ sweep.n = 1
    /\ lastClosed.open

(***************************************************************************)
(* C24: a digitizer that does not report fired after the arm does not hold *)
(* the loop: the loop leaves its wait on a digitizer whose fired bit is    *)
(* clear only by the timeout, which adds one to the timeout counter and    *)
(* arms again.                                                             *)
(***************************************************************************)
C24_SilentFpgaTimesOut ==
    [][(pc = "wait" /\ pc' # "wait" /\ Bit(Status, STATUS_FIRED) = 0) =>
          /\ timeouts' = timeouts + 1
          /\ pc' = "arm"]_vars

(***************************************************************************)
(* C25: when the rings cannot supply space for a fired pulse (Next returns *)
(* an error) the loop drops the pulse: the dropped counter goes up by one, *)
(* no scanline slot is taken, the sweep state is unchanged, nothing is     *)
(* posted, and the loop is back at the top, on its way to the next arm.    *)
(* A pulse that got its space is not counted as dropped.                   *)
(***************************************************************************)
C25_FullRingDropsPulse ==
    [][(pc = "fired" /\ pc' # "fired") =>
          /\ ret'.op = "Next"
          /\ ret'.err <=> (NumSamp + 2 <= 0 \/ NumSamp + 2 > SampBuffLen)
          /\ ret'.err =>
                /\ dropped' = dropped + 1
                /\ iScanline' = iScanline
                /\ ScanBuff' = ScanBuff
                /\ SampBuff' = SampBuff
                /\ sweep' = sweep
                /\ lastClosed' = lastClosed
                /\ mailbox' = mailbox
                /\ drops' = drops
                /\ pc' = "idle"
          /\ ~ret'.err => dropped' = dropped /\ pc' = "alloc"]_vars

\* A pulse was captured and posted, the next one asked for more samples
\* than the ring holds and was dropped, and the loop has armed again.
C25_Witness ==
    /\ pc = "wait"
    /\ dropped = 1
    /\ ret.err
    /\ ret.n = SampBuffLen - 1
    /\ iScanline = 1
    /\ \E c \in Clients : mailbox[c].kind = "pulse"

(***************************************************************************)
(* C22: for a throttled-pulse subscription with minimum interval D, every  *)
(* scanline delivered was captured at least D after the one delivered      *)
(* before it, and it is the first such scanline: a captured scanline is    *)
(* passed over only when it came less than D after the last delivery, and  *)
(* never because the mailbox was full.  The first scanline is delivered.   *)
(***************************************************************************)
C22_ThrottledDelivery ==
    [][thr'.t # thr.t =>
          /\ thr'.last # thr.last =>
                /\ thr'.last = thr'.t
                /\ thr.last >= 0 => thr'.t - thr.last >= MinInterval
                /\ thr'.box.kind = "pulse"
                /\ thr'.box.trig = thr'.t
          /\ thr'.last = thr.last =>
                /\ thr.last >= 0
                /\ thr'.t - thr.last < MinInterval
                /\ thr'.box = thr.box]_vars

\* Scanlines at times 1, 2, 3, 4 and so on: the first was delivered and
\* not consumed, the next were passed over, and the one captured exactly
\* MinInterval after the first replaced it in the mailbox.
C22_Witness ==
    /\ thr.t = 1 + MinInterval
    /\ thr.last = 1 + MinInterval
    /\ thr.box.trig = 1 + MinInterval
    /\ thr.lost = 1

(***************************************************************************)
(* C23: after the shutdown signal the loop terminates.  A capture that is  *)
(* under way is completed (samples, metadata, sweep update, notification)  *)
(* before the loop returns; on returning the loop posts the sentinel to    *)
(* every subscriber, once; after it no pulse is captured and nothing more  *)
(* is posted, and the subscribers find their mailboxes closed.             *)
(***************************************************************************)
PulseClients == {c \in Clients : Kind(c) = "pulse"}

C23_ShutdownTerminates ==
    /\ stop ~> (pc = "done")
    /\ (stop /\ pc = "alloc") ~>
          (pc = "idle" /\ \A c \in PulseClients : mailbox[c] = PulseItem(ret.i, loc.trig))
    /\ [][(pc # "done" /\ pc' = "done") =>
             /\ stop
             /\ pc \in {"idle", "arm"}
             /\ \A c \in Clients : mailbox'[c] = SentinelItem]_vars
    /\ [][pc = "done" =>
             /\ pc' = "done"
             /\ UNCHANGED <<bufVars, sweepVars, busVars, loopVars, stamp>>]_vars

\* The loop has returned after two captures: the sentinel is in every
\* mailbox, where it replaced a notification nobody had taken.
C23_Witness ==
    /\ pc = "done"
    /\ stop
    /\ iScanline = 2
    /\ \A c \in Clients : mailbox[c] = SentinelItem
    /\ \E c \in Clients : drops[c] >= 1

(***************************************************************************)
(* C35: for every n and trig, Next either returns an error, or succeeds    *)
(* with a view of at least 2 samples: a call that did not return an error  *)
(* has a view that holds the two fingerprint samples, and has returned.    *)
(***************************************************************************)
C35_NextErrorOrFullView ==
    (ret.op = "Next" /\ ~ret.err) => (ret.s.len >= 2 /\ pc # "panic")

(***************************************************************************)
(* C36: NOT_A_SAMPLE marks only the start of a scanline.  The digitizer    *)
(* never delivers NOT_A_SAMPLE, so of the samples the producer has written *)
(* for the scanline it is working on only the first one of the view holds  *)
(* NOT_A_SAMPLE: the second fingerprint sample, the low 16 bits of the     *)
(* trigger count, and the samples copied behind it never do.               *)
(***************************************************************************)
C36_MarkOnlyAtStart ==
    pc \in {"alloc", "filled"} =>
        \A x \in 0 .. SampBuffLen - 1 :
            (/\ x > ret.s.start
             /\ x < ret.s.start + ret.s.len
             /\ stamp[x] = ret.trig) => SampBuff[x] # NOT_A_SAMPLE

(***************************************************************************)
(* C37: views handed out by the sample ring overlap only across a wrap.    *)
(* After a slice was returned the cursor is at its end; an allocation that *)
(* does not wrap returns the slice that starts at the cursor, so it starts *)
(* where the slice returned before it ends and shares no sample with it;   *)
(* only an allocation that does not fit before the end of the ring starts  *)
(* again at 0; no other step moves the cursor.                             *)
(***************************************************************************)
AllocStep == (CallNextSliceFor \/ CallNext) /\ ~ret'.s.nil

C37_DisjointWithinPass ==
    /\ [](~ret.s.nil => iSample = ret.s.start + ret.s.len)
    /\ [][/\ AllocStep =>
               /\ iSample + ret'.s.len <= SampBuffLen => ret'.s.start = iSample
               /\ iSample + ret'.s.len > SampBuffLen => ret'.s.start = 0
               /\ (~ret.s.nil /\ iSample + ret'.s.len <= SampBuffLen) =>
                     ret'.s.start = ret.s.start + ret.s.len
          /\ ~AllocStep => iSample' = iSample]_vars

\* Two scanlines allocated one after the other in the second pass over the
\* ring: the later view starts where the earlier one ends.
C37_Witness ==
    /\ ret.op = "Next"
    /\ ~ret.s.nil
    /\ ret.s.start = 2
    /\ nSamples > SampBuffLen
    /\ \E j \in 0 .. ScanBuffLen - 1 :
          /\ ~ScanBuff[j].Samples.nil
          /\ ScanBuff[j].Samples.start = 0
          /\ ScanBuff[j].Samples.len = 2

(***************************************************************************)
(* C38: the ring statistics match their documentation.  Every successful   *)
(* Next adds one to nScanlines and nothing else changes it; every slice    *)
(* handed out adds its length to nSamples and nothing else changes it.     *)
(***************************************************************************)
C38_StatisticsMatch ==
    [][/\ (CallNext /\ ~ret'.err /\ pc' = "alloc") => nScanlines' = nScanlines + 1
       /\ ~(CallNext /\ ~ret'.err) => nScanlines' = nScanlines
       /\ AllocStep => nSamples' = nSamples + ret'.s.len
       /\ ~AllocStep => nSamples' = nSamples]_vars

(***************************************************************************)
(* C31: Arm() stores the word read from Command with the arm bit (bit 0)   *)
(* set, Reset() stores it with the reset bit (bit 1) set; the other bits   *)
(* of the word are as read, and the call writes no other register of the   *)
(* block and changes no mapping.  (Status is the digitizer's answer to the *)
(* command, not a store of the call.)                                      *)
(***************************************************************************)
C31_ArmResetSetOneBit ==
    [][(calls' = calls + 1 /\ cret'.op \in {"Arm", "Reset"}) =>
          LET b == IF cret'.op = "Arm" THEN 1 ELSE 2
          IN  /\ cret'.val = LaneGet("Command")
              /\ Bit(cret'.v, b) = 1
              /\ \A m \in {1, 2, 4, 8, 16} \ {b} : Bit(cret'.v, m) = Bit(cret'.val, m)
              /\ cret'.v \div 32 = cret'.val \div 32
              /\ regs' = regs
              /\ NumSamp' = NumSamp
              /\ <<trigCount, arpCount, savedTrig, savedArp>>' =
                    <<trigCount, arpCount, savedTrig, savedArp>>
              /\ fp' = fp
              /\ Status' = IF b = 2 THEN 0
                           ELSE IF Status = STATUS_CAPTURING THEN Status ELSE STATUS_ARMED]_vars

\* Arm() after a register was set: the digitizer is armed and the register
\* still holds the word.
C31_Witness ==
    /\ cret.op = "Arm"
    /\ cret.v = 1
    /\ Status = STATUS_ARMED
    /\ regs["TrigSource"] = 5
    /\ calls = 2

(***************************************************************************)
(* C32: register offsets are the running sum of the register sizes, 4      *)
(* bytes per 32-bit and 8 bytes per 64-bit register in declaration order,  *)
(* with no gap or padding: the offset of every register the generator has  *)
(* extracted is the sum of the sizes of the registers before it, line j of *)
(* the memory map it writes is at byte 4*(j-1), and the same holds of the  *)
(* fields Init() builds the accessor table from on the same platform, and  *)
(* of the memory map committed with the sources.                           *)
(***************************************************************************)
\* The sum of entries lo .. hi of a sequence of sizes (summed half by half).
RECURSIVE SizeSum(_, _, _)

SizeSum(q, lo, hi) ==
    IF lo > hi THEN 0
    ELSE IF lo = hi THEN q[lo]
    ELSE LET mid == (lo + hi) \div 2
             e == SizeSum(q, lo, mid)
         IN  IF e >= 0 THEN e + SizeSum(q, mid + 1, hi) ELSE e

C32_OffsetsRunningSum ==
    /\ LET bytes == [k \in DOMAIN gen.regs |-> gen.regs[k].size \div 8]
       IN  \A k \in DOMAIN gen.regs : gen.regs[k].offset = SizeSum(bytes, 1, k - 1)
    /\ \A j \in DOMAIN gen.out[1] : Literal(gen.out[1][j].hex) = 4 * (j - 1)
    /\ gen.regs # << >> =>
         /\ LET bytes == [k \in DOMAIN Fields |-> Fields[k].size]
            IN  \A k \in DOMAIN Fields : FieldOffset(k, gen.align) = SizeSum(bytes, 1, k - 1)
         /\ \A j \in DOMAIN GeneratedMMap : Literal(GeneratedMMap[j].hex) = 4 * (j - 1)

(***************************************************************************)
(* C33: the generator partitions the registers by access mode.  At every   *)
(* point of a run, of the registers written so far to a dispatch file, a   *)
(* register has branches in the getter file iff its mode is not p, in the  *)
(* setter file iff its mode is rw and in the pulser file iff its mode is   *)
(* p; so no lane has both a setter and a pulser branch.  Where a register  *)
(* appears it has one branch per 32-bit lane, once, named as in the memory *)
(* map: a 64-bit register a branch _LO for bits 31:0 and a branch _HI for  *)
(* bits 63:32.                                                             *)
(***************************************************************************)
\* The number of registers written to file f so far.
Written(f) == IF gen.file > f THEN Len(gen.regs) ELSE IF gen.file = f THEN gen.i ELSE 0

\* The 32-bit lanes of register r, with the bits of r each one is.
LanesOf(r) ==
    IF r.size = 64
    THEN {[name |-> r.name \o "_LO", regname |-> r.regname, bits |-> <<31, 0>>],
          [name |-> r.name \o "_HI", regname |-> r.regname, bits |-> <<63, 32>>]}
    ELSE {[name |-> r.name, regname |-> r.regname, bits |-> <<31, 0>>]}

\* The lanes of the registers among the first n whose mode is in modes.
LanesByMode(n, modes) ==
    UNION {LanesOf(gen.regs[i]) : i \in {i \in 1 .. n : gen.regs[i].mode \in modes}}

\* The branches file f has so far.
Branched(f) == {gen.out[f][j] : j \in DOMAIN gen.out[f]}

C33_DispatchByMode ==
    /\ \A i \in DOMAIN gen.regs : gen.regs[i].mode \in {"rw", "r", "p"}
    /\ Branched(3) = LanesByMode(Written(3), {"rw", "r"})
    /\ Branched(4) = LanesByMode(Written(4), {"rw"})
    /\ Branched(5) = LanesByMode(Written(5), {"p"})
    /\ \A f \in {3, 4, 5} :
         /\ Len(gen.out[f]) = Cardinality(Branched(f))
         /\ \A b \in Branched(f) : \E j \in DOMAIN gen.out[1] : gen.out[1][j].name = b.name
    /\ {b.name : b \in Branched(4)} \cap {b.name : b \in Branched(5)} = {}

\* The run is over: Command has the only pulser branch, the saved trigger
\* clock (64 bits, read-only) has a getter branch for each half and no setter
\* branch, and the trigger source has a getter and a setter branch.
C33_Witness ==
    /\ gen.file = Len(GenFiles) + 1
    /\ {b.name : b \in Branched(5)} = {"Command"}
    /\ {"saved_TrigClock_LO", "saved_TrigClock_HI"} \subseteq {b.name : b \in Branched(3)}
    /\ "saved_TrigClock_HI" \notin {b.name : b \in Branched(4)}
    /\ \E b \in Branched(4) : b.name = "TrigSource" /\ b.regname = "trig_source"
    /\ "TrigSource" \in {b.name : b \in Branched(3)}

(***************************************************************************)
(* C34: a loadConfig that finds no configuration file returns false and    *)
(* leaves every register as it was, and the words setDefaultConfig then    *)
(* stores are all legal: DecRate in 1..65536, NumSamp even and in          *)
(* 2..16384, TrigSource in 0..4, the trigger thresholds in -8192..8191 and *)
(* the ACP and ARP thresholds in -2048..2047 when read as signed values.   *)
(***************************************************************************)
C34_DefaultsLegal ==
    [][/\ (calls' = calls + 1 /\ cret'.op = "loadConfig" /\ ~cret'.ok)
            => Block' = Block
       /\ (calls' = calls + 1 /\ cret'.op = "setDefaultConfig")
            => LET b == Block'
               IN  /\ b["DecRate"] \in 1 .. 65536
                   /\ b["NumSamp"] \in 2 .. 16384
                   /\ b["NumSamp"] % 2 = 0
                   /\ b["TrigSource"] \in 0 .. 4
                   /\ \A x \in {"TrigThreshExcite", "TrigThreshRelax"} :
                        AsSigned(b[x]) \in -8192 .. 8191
                   /\ \A x \in {"ACPThreshExcite", "ACPThreshRelax",
                                 "ARPThreshExcite", "ARPThreshRelax"} :
                        AsSigned(b[x]) \in -2048 .. 2047
                   /\ \A x \in DefaultKeys : b[x] = DefaultWord(x)
                   /\ \A x \in LaneNames \ DefaultKeys : b[x] = Block[x]]_vars

\* The defaults were applied as the second call of a run, as after a
\* loadConfig that found no file: the excite thresholds are negative.
C34_Witness ==
    /\ cret.op = "setDefaultConfig"
    /\ calls = 2
    /\ NumSamp = 4000
    /\ AsSigned(regs["TrigThreshExcite"]) = -6550
    /\ Hi16(regs["ACPThreshExcite"]) = 65535
    /\ Lo16(regs["ACPThreshExcite"]) = 63898
    /\ regs["ARPLatency"] = 125000000

(***************************************************************************)
(* C39: after Init() the accessor tables agree with each other: RegMap,    *)
(* RegKeys and RegIndex have the same length, RegMap[RegKeys[i]] = i for   *)
(* every i, a 64-bit field of the schema gives exactly the two lanes       *)
(* <name>_lo at its offset and <name>_hi at its offset + 4 (a 32-bit field *)
(* the one lane <name>), and every entry of RegIndex is a word inside the  *)
(* mapped register block.  Before Init() the tables are empty and every    *)
(* generic get and set fails and changes nothing.                          *)
(***************************************************************************)
TablesConsistent ==
    /\ Cardinality(LaneNames) = NumRegs
    /\ DOMAIN RegKeys = 0 .. NumRegs - 1
    /\ DOMAIN RegIndex = 0 .. NumRegs - 1
    /\ \A i \in 0 .. NumRegs - 1 :
         /\ RegMap(RegKeys[i]) = i
         /\ RegIndex[i] >= 0
         /\ RegIndex[i] + 4 <= BASE_SIZE
    /\ \A k \in 1 .. Len(Fields) :
         LET f == Fields[k]
             own == {i \in 0 .. NumRegs - 1 :
                        RegKeys[i] \in {f.name, f.name \o "_lo", f.name \o "_hi"}}
         IN  IF f.size = 8
             THEN /\ own = {LaneBase(k), LaneBase(k) + 1}
                  /\ RegKeys[LaneBase(k)] = f.name \o "_lo"
                  /\ RegIndex[LaneBase(k)] = FieldOffset(k, TargetAlign)
                  /\ RegKeys[LaneBase(k) + 1] = f.name \o "_hi"
                  /\ RegIndex[LaneBase(k) + 1] = FieldOffset(k, TargetAlign) + 4
             ELSE /\ own = {LaneBase(k)}
                  /\ RegKeys[LaneBase(k)] = f.name
                  /\ RegIndex[LaneBase(k)] = FieldOffset(k, TargetAlign)

C39_TablesConsistent ==
    /\ [](Mapped => (TableLen(fp) = NumRegs /\ TablesConsistent))
    /\ [](fp.life = "none" => (TableLen(fp) = 0 /\ TableKeys(fp) = {}))
    /\ [][(calls' = calls + 1 /\ fp.life = "none" /\ cret'.op \in GenericOps \cup {"fault"})
              => /\ cret'.op \in GenericOps
                 /\ ~cret'.ok
                 /\ Block' = Block]_vars
    /\ [][(calls' = calls + 1 /\ Mapped /\ cret'.op \in ByIndex)
              => (cret'.ok <=> cret'.i \in 0 .. NumRegs - 1)]_vars

\* A set by name of an existing register failed before Init().
C39_BeforeWitness ==
    /\ fp.life = "none"
    /\ cret.op = "SetRegByName"
    /\ cret.name = "Command"
    /\ ~cret.ok

\* Init() mapped the block and, as the second call of the run, a get by name
\* of the high lane of a 64-bit register succeeded.
C39_Witness ==
    /\ Mapped
    /\ calls = 2
    /\ cret.op = "GetRegByName"
    /\ cret.name = "Clocks_hi"
    /\ cret.ok
    /\ RegMap("Clocks_hi") = RegMap("Clocks_lo") + 1
    /\ RegIndex[RegMap("Clocks_hi")] = RegIndex[RegMap("Clocks_lo")] + 4

====
